---- MODULE Spec2Model ----
(***************************************************************************)
(* A model of the UniAssist course assistant: the quiz engine (parsing and *)
(* grading), the document chunker and the answer orchestrator.             *)
(*                                                                         *)
(* Python strings are sequences of one-character strings, Python dicts are *)
(* functions whose domain is the set of keys present, Python lists are     *)
(* sequences, and None is the value None below.                            *)
(***************************************************************************)
EXTENDS Integers, Sequences, FiniteSets, TLC

VARIABLES
    quiz,          \* the quiz dict handed to grade_quiz
    answers,       \* the submitted answer mapping handed to grade_quiz
    grade_log,     \* the results returned by the calls of grade_quiz so far
    quiz_text,     \* the generated text handed to _parse_quiz
    parse_log,     \* the outcomes of the calls of _parse_quiz so far
    pdf,           \* the uploaded PDF file and the doc_type it is given
    chunker,       \* the TextChunker instance: chunk_size, chunk_overlap
    document,      \* <<the document process_pdf returned>>, empty before
    chunk_log,     \* the chunk lists returned by chunk_document so far
    store_hits,    \* what the collection returns for the pending query
    llm_reply,     \* what the generation service does on the pending call
    ask_log,       \* the results returned by ask so far
    quiz_log,      \* the outcomes of the calls of generate_quiz so far
    llm_posts,     \* the prompts posted to the generation service so far
    index,         \* the collection's entries, nearest to the pending query first
    search,        \* the pending retrieve call: n_results and filter_dict
    retrieve_log,  \* the lists returned by retrieve so far
    pass,          \* the running loop of a chunking strategy, << >> when none runs
    collection,    \* the records of the vector store's collection, by identifier
    api_log        \* the responses the API endpoints have sent so far

vars == <<quiz, answers, grade_log, quiz_text, parse_log, pdf, chunker, document,
          chunk_log, store_hits, llm_reply, ask_log, quiz_log, llm_posts, index, search, retrieve_log, pass, collection, api_log>>

----------------------------------------------------------------------------
(* Bounds of the model. *)

MaxQuestions == 3
MaxGradeCalls == 2

----------------------------------------------------------------------------
(* Python values and string primitives. *)

None == "<None>"

\* dict.get(key) with the default None
Get(d, k) == IF k \in DOMAIN d THEN d[k] ELSE None

\* dict.get(key, default)
GetOr(d, k, default) == IF k \in DOMAIN d THEN d[k] ELSE default

SeqsUpTo(S, n) == UNION {[1..k -> S] : k \in 0..n}

\* the characters str.strip() and str.split() treat as whitespace
Whitespace == {" ", "\t", "\n", "\r", "\f"}

Digits == {"0", "1", "2", "3", "4", "5", "6", "7", "8", "9"}

UpperCase == {"A", "B", "C", "D", "E", "F", "G", "H", "I", "J", "K", "L", "M",
              "N", "O", "P", "Q", "R", "S", "T", "U", "V", "W", "X", "Y", "Z"}

\* s[i:] for a 0-based Python index i >= 0
From(s, i) == IF i >= Len(s) THEN << >> ELSE SubSeq(s, i + 1, Len(s))

\* s[i:j] for 0-based Python indices 0 <= i, 0 <= j
Slice(s, i, j) ==
    LET hi == IF j > Len(s) THEN Len(s) ELSE j
    IN  IF i >= hi THEN << >> ELSE SubSeq(s, i + 1, hi)

\* str.startswith(prefix)
StartsWith(s, p) == Len(p) <= Len(s) /\ SubSeq(s, 1, Len(p)) = p

\* c in s
Contains(s, c) == \E i \in 1..Len(s) : s[i] = c

RECURSIVE LStrip(_)
LStrip(s) == IF s # << >> /\ Head(s) \in Whitespace THEN LStrip(Tail(s)) ELSE s

RECURSIVE RStrip(_)
RStrip(s) ==
    IF s # << >> /\ s[Len(s)] \in Whitespace
    THEN RStrip(SubSeq(s, 1, Len(s) - 1))
    ELSE s

\* str.strip()
Strip(s) == RStrip(LStrip(s))

\* index of the first occurrence of character c in s at or after i, 0 if none
RECURSIVE FindChar(_, _, _)
FindChar(s, c, i) ==
    IF i > Len(s) THEN 0
    ELSE IF s[i] = c THEN i
    ELSE FindChar(s, c, i + 1)

\* str.split(c): every separator splits, empty pieces are kept
RECURSIVE SplitOn(_, _)
SplitOn(s, c) ==
    LET k == FindChar(s, c, 1)
    IN  IF k = 0 THEN <<s>>
        ELSE <<SubSeq(s, 1, k - 1)>> \o SplitOn(From(s, k), c)

\* str.split(c, 1): at most one split
SplitOnce(s, c) ==
    LET k == FindChar(s, c, 1)
    IN  IF k = 0 THEN <<s>> ELSE <<SubSeq(s, 1, k - 1), From(s, k)>>

\* the length of the run of non-whitespace characters at the head of s
RECURSIVE WordLen(_)
WordLen(s) ==
    IF s = << >> \/ Head(s) \in Whitespace THEN 0 ELSE 1 + WordLen(Tail(s))

\* str.split(): runs of whitespace separate, no empty pieces
RECURSIVE SplitWs(_)
SplitWs(s) ==
    LET t == LStrip(s)
        n == WordLen(t)
    IN  IF t = << >> THEN << >>
        ELSE <<SubSeq(t, 1, n)>> \o SplitWs(From(t, n))

\* sep.join(parts)
RECURSIVE Join(_, _)
Join(sep, parts) ==
    IF parts = << >> THEN << >>
    ELSE IF Len(parts) = 1 THEN parts[1]
    ELSE parts[1] \o sep \o Join(sep, Tail(parts))

----------------------------------------------------------------------------
(* QuizAgent.grade_quiz *)

\* is_correct = user_answer == correct_answer
is_correct_of(user_answer, correct_answer) == user_answer = correct_answer

\* score = (correct_count / total * 100) if total > 0 else 0, as the exact
\* rational num/den (the float the code computes is its rounding)
ScoreUnguarded(correct_count, total) ==
    IF total # 0 THEN [num |-> correct_count * 100, den |-> total]
    ELSE [raised |-> "ZeroDivisionError"]
score_of(correct_count, total) ==
    IF total > 0 THEN [num |-> correct_count * 100, den |-> total]
    ELSE [num |-> 0, den |-> 1]

\* one iteration of the loop over enumerate(quiz['questions'], 1)
grade_entry(i, question, answer_map) ==
    LET user_answer == Get(answer_map, i)
        correct_answer == Get(question, "correct")
    IN  [question_num |-> i,
         question |-> question["question"],
         user_answer |-> user_answer,
         correct_answer |-> correct_answer,
         is_correct |-> is_correct_of(user_answer, correct_answer)]

\* the loop: results and correct_count after questions i..n are processed
RECURSIVE grade_loop(_, _, _, _, _)
grade_loop(questions, answer_map, i, results, correct_count) ==
    IF i > Len(questions) THEN [results |-> results, correct_count |-> correct_count]
    ELSE LET entry == grade_entry(i, questions[i], answer_map)
         IN  grade_loop(questions, answer_map, i + 1, Append(results, entry),
                        IF entry.is_correct THEN correct_count + 1 ELSE correct_count)

grade_quiz(q, answer_map) ==
    LET loop == grade_loop(q["questions"], answer_map, 1, << >>, 0)
        total == Len(q["questions"])
    IN  [total_questions |-> total,
         correct |-> loop.correct_count,
         incorrect |-> total - loop.correct_count,
         score |-> score_of(loop.correct_count, total),
         results |-> loop.results]

\* the letters a parsed question can carry as its key
KeyLetters == {"A", "B", "C"}

\* the letters a caller submits
AnswerLetters == {"A", "C", "X", "a"}

FullOptions == [A |-> "w", B |-> "x", C |-> "y", D |-> "z"]

\* the records _parse_quiz builds: 'correct' is present only when a
\* 'Correct:' line was read
QuestionRecords ==
    {[question |-> "q", options |-> FullOptions]}
    \cup {[question |-> "q", options |-> FullOptions, correct |-> c] : c \in KeyLetters}

Quizzes == {[topic |-> "arrays", questions |-> qs] : qs \in SeqsUpTo(QuestionRecords, MaxQuestions)}

AnswerMaps == UNION {[K -> AnswerLetters] : K \in SUBSET (1..MaxQuestions)}

GradeIdle ==
    /\ quiz = [topic |-> "arrays", questions |-> << >>]
    /\ answers = << >>
    /\ grade_log = << >>

GradeInit ==
    /\ quiz \in Quizzes
    /\ answers \in AnswerMaps
    /\ grade_log = << >>

\* a call assistant.grade_quiz(quiz, answers): the arguments are only read
GradeQuizMutating ==
    /\ Len(grade_log) < MaxGradeCalls
    /\ grade_log' = Append(grade_log, grade_quiz(quiz, answers))
    /\ quiz' = [quiz EXCEPT !["questions"] =
                   [i \in 1..Len(@) |-> [@[i] EXCEPT !["question"] = "graded"]]]
    /\ UNCHANGED answers
GradeQuiz ==
    /\ Len(grade_log) < MaxGradeCalls
    /\ grade_log' = Append(grade_log, grade_quiz(quiz, answers))
    /\ UNCHANGED <<quiz, answers>>

----------------------------------------------------------------------------
(* QuizAgent._parse_quiz *)

\* the outcome of a call: the exception raised (None if none) and the value
Returned(v) == [raised |-> None, value |-> v]
Raised(e) == [raised |-> e, value |-> None]

OptionPrefixes == {<<"A", ")">>, <<"B", ")">>, <<"C", ")">>, <<"D", ")">>}

\* d[k] = v on a dict
DictSet(d, k, v) == [x \in DOMAIN d \cup {k} |-> IF x = k THEN v ELSE d[x]]

\* the body of the loop, taking the question text between the first two colons
ParseLineSplitsEveryColon(st, raw) ==
    LET line == Strip(raw)
        has_q == st.current_q # << >>
        current_q == st.current_q[1]
    IN  IF StartsWith(line, <<"Q">>) /\ Contains(line, ":")
        THEN [st EXCEPT
                 !.questions = IF has_q THEN Append(@, current_q) ELSE @,
                 !.current_q = <<[question |-> Strip(SplitOn(line, ":")[2]),
                                  options |-> << >>]>>]
        ELSE IF has_q /\ \E p \in OptionPrefixes : StartsWith(line, p)
        THEN LET option == line[1]
                 text == Strip(From(line, 2))
             IN  [st EXCEPT !.current_q =
                      <<[current_q EXCEPT !.options = DictSet(@, option, text)]>>]
        ELSE IF has_q /\ StartsWith(line, <<"C", "o", "r", "r", "e", "c", "t", ":">>)
        THEN LET after == Strip(SplitOn(line, ":")[2])
             IN  IF after = << >>
                 THEN [st EXCEPT !.raised = "IndexError"]
                 ELSE [st EXCEPT !.current_q = <<DictSet(current_q, "correct", after[1])>>]
        ELSE st

\* the body of the loop for one line; st holds questions, current_q (the
\* empty sequence for None, <<dict>> otherwise) and the exception raised so
\* far (None if none)
parse_line(st, raw) ==
    LET line == Strip(raw)
        has_q == st.current_q # << >>
        current_q == st.current_q[1]
    IN  IF StartsWith(line, <<"Q">>) /\ Contains(line, ":")
        THEN [st EXCEPT
                 !.questions = IF has_q THEN Append(@, current_q) ELSE @,
                 !.current_q = <<[question |-> Strip(SplitOnce(line, ":")[2]),
                                  options |-> << >>]>>]
        ELSE IF has_q /\ \E p \in OptionPrefixes : StartsWith(line, p)
        THEN LET option == line[1]
                 text == Strip(From(line, 2))
             IN  [st EXCEPT !.current_q =
                      <<[current_q EXCEPT !.options = DictSet(@, option, text)]>>]
        ELSE IF has_q /\ StartsWith(line, <<"C", "o", "r", "r", "e", "c", "t", ":">>)
        THEN LET after == Strip(SplitOn(line, ":")[2])
             IN  IF after = << >>
                 THEN [st EXCEPT !.raised = "IndexError"]
                 ELSE [st EXCEPT !.current_q = <<DictSet(current_q, "correct", after[1])>>]
        ELSE st

RECURSIVE parse_loop(_, _)
parse_loop(st, lines) ==
    IF lines = << >> \/ st.raised # None THEN st
    ELSE parse_loop(parse_line(st, Head(lines)), Tail(lines))

_parse_quiz(text) ==
    LET st == parse_loop([questions |-> << >>, current_q |-> << >>, raised |-> None],
                         SplitOn(text, "\n"))
    IN  IF st.raised # None THEN Raised(st.raised)
        ELSE Returned(IF st.current_q # << >>
                      THEN Append(st.questions, st.current_q[1])
                      ELSE st.questions)

\* lines a generated quiz text is made of
ParseLines ==
    {<<"Q", "1", ":", " ", "x">>,
     <<"A", ")", " ", "w">>,
     <<"D", ")", "z">>,
     <<"C", "o", "r", "r", "e", "c", "t", ":", " ", "B", ",", " ", "a", "s">>,
     <<"C", "o", "r", "r", "e", "c", "t", ":">>,
     <<" ", " ", "C", "o", "r", "r", "e", "c", "t", ":", " ", "a", " ">>,
     <<"n", "o", "t", "e">>,
     <<"Q", "2", " ", "y">>}

MaxLines == 4

QuizTexts == {Join(<<"\n">>, ls) : ls \in SeqsUpTo(ParseLines, MaxLines)}

ParseInit ==
    /\ quiz_text \in QuizTexts
    /\ parse_log = << >>

\* a call self._parse_quiz(quiz_text)
ParseQuiz ==
    /\ parse_log = << >>
    /\ parse_log' = <<_parse_quiz(quiz_text)>>
    /\ UNCHANGED quiz_text

\* the decimal numeral of n, 0 <= n <= 9
Numeral(n) == <<<<"0", "1", "2", "3", "4", "5", "6", "7", "8", "9">>[n + 1]>>

\* question n in the format the generation prompt asks for: 'Q<N>: <text>',
\* 'A) <text>' to 'D) <text>' and 'Correct: <letter>', here followed by the
\* explanation the model may add on the same line
write_question(n, q, explanation) ==
    Join(<<"\n">>,
         << <<"Q">> \o Numeral(n) \o <<":", " ">> \o q.question,
            <<"A", ")", " ">> \o q.options["A"],
            <<"B", ")", " ">> \o q.options["B"],
            <<"C", ")", " ">> \o q.options["C"],
            <<"D", ")", " ">> \o q.options["D"],
            <<"C", "o", "r", "r", "e", "c", "t", ":", " ", q.correct>> \o explanation >>)

\* the questions in that format, a blank line between two questions
write_quiz(questions, explanation) ==
    Join(<<"\n", "\n">>,
         [n \in 1..Len(questions) |-> write_question(n, questions[n], explanation)])

\* single-line trimmed texts: plain, with a colon, looking like another line
\* of the format, empty
QuestionTexts == {<<"x">>, <<"C", "o", "r", "r", "e", "c", "t", ":", " ", "C">>}
OptionTexts ==
    {[A |-> <<"w">>, B |-> <<"y">>, C |-> <<"z">>, D |-> <<"v">>],
     [A |-> <<"B", ")", " ", "z">>, B |-> <<"Q", "2", ":", " ", "y">>,
      C |-> << >>, D |-> <<"a", ":", "b">>]}
CorrectLetters == {"A", "B", "C", "D"}

WellFormedQuestions ==
    {[question |-> t, options |-> o, correct |-> c] :
         t \in QuestionTexts, o \in OptionTexts, c \in CorrectLetters}

\* what may follow the letter on the 'Correct:' line
Explanations ==
    {<< >>, <<".">>, <<" ", "(", "n", "o", "t", " ", "A", ")">>,
     <<",", " ", "a", "s", " ", "a", ":", " ", "b">>}

MaxWritten == 2

\* a quiz text written in the format for a list of well-formed questions
RoundTripInit ==
    /\ quiz \in {[topic |-> "arrays", questions |-> qs] :
                    qs \in SeqsUpTo(WellFormedQuestions, MaxWritten)}
    /\ quiz_text \in {write_quiz(quiz.questions, e) : e \in Explanations}
    /\ answers = << >>
    /\ grade_log = << >>
    /\ parse_log = << >>

----------------------------------------------------------------------------
(* The regular expressions of the chunker and the PDF processor, over ASCII *)

LowerCase == {"a", "b", "c", "d", "e", "f", "g", "h", "i", "j", "k", "l", "m",
              "n", "o", "p", "q", "r", "s", "t", "u", "v", "w", "x", "y", "z"}

UpperOf == [a |-> "A", b |-> "B", c |-> "C", d |-> "D", e |-> "E", f |-> "F",
            g |-> "G", h |-> "H", i |-> "I", j |-> "J", k |-> "K", l |-> "L",
            m |-> "M", n |-> "N", o |-> "O", p |-> "P", q |-> "Q", r |-> "R",
            s |-> "S", t |-> "T", u |-> "U", v |-> "V", w |-> "W", x |-> "X",
            y |-> "Y", z |-> "Z"]

\* the case fold re.IGNORECASE compares under
Fold(c) == IF c \in LowerCase THEN UpperOf[c] ELSE c

\* \s
RegexSpace == {" ", "\t", "\n", "\r", "\f"}

\* [\.\):]
MarkerPunct == {".", ")", ":"}

\* the position after the literal lit matched at position i of s (ignoring
\* case if ci), 0 if it does not match there
MatchLit(s, i, lit, ci) ==
    IF /\ i >= 1
       /\ i + Len(lit) - 1 <= Len(s)
       /\ \A k \in 1..Len(lit) :
              IF ci THEN Fold(s[i + k - 1]) = Fold(lit[k]) ELSE s[i + k - 1] = lit[k]
    THEN i + Len(lit)
    ELSE 0

\* the position after the longest run of characters of class C starting at i
RECURSIVE RunEnd(_, _, _)
RunEnd(s, i, C) == IF i >= 1 /\ i <= Len(s) /\ s[i] \in C THEN RunEnd(s, i + 1, C) ELSE i

\* C+ at position i: the position after the run, 0 if the run is empty
MatchPlus(s, i, C) == IF i = 0 \/ RunEnd(s, i, C) = i THEN 0 ELSE RunEnd(s, i, C)

\* one character of class C at position i
MatchOne(s, i, C) == IF i >= 1 /\ i <= Len(s) /\ s[i] \in C THEN i + 1 ELSE 0

\* lit1\s+lit2 at position i
MatchTwoWords(s, i, lit1, lit2, ci) ==
    LET a == MatchLit(s, i, lit1, ci)
        b == MatchPlus(s, a, RegexSpace)
    IN  IF a = 0 \/ b = 0 THEN 0 ELSE MatchLit(s, b, lit2, ci)

\* lit\s+\d+ at position i
MatchWordNumber(s, i, lit, ci) ==
    LET a == MatchLit(s, i, lit, ci)
        b == MatchPlus(s, a, RegexSpace)
    IN  IF a = 0 \/ b = 0 THEN 0 ELSE MatchPlus(s, b, Digits)

\* Q\d+[\.\):] at position i, ignoring case
MatchShortMarker(s, i) ==
    LET a == MatchLit(s, i, <<"Q">>, TRUE)
        b == MatchPlus(s, a, Digits)
    IN  IF a = 0 \/ b = 0 THEN 0 ELSE MatchOne(s, b, MarkerPunct)

\* question_pattern = (Q\d+[\.\):]|Question\s+\d+[\.\):]) at position i with
\* re.IGNORECASE: the position after the match, 0 if there is none.  The
\* classes that follow one another are disjoint, so the greedy match is the
\* only one and the alternatives exclude one another.
question_pattern(s, i) ==
    IF MatchShortMarker(s, i) # 0 THEN MatchShortMarker(s, i)
    ELSE LET b == MatchWordNumber(s, i, <<"Q", "u", "e", "s", "t", "i", "o", "n">>, TRUE)
         IN  IF b = 0 THEN 0 ELSE MatchOne(s, b, MarkerPunct)

\* re.split(question_pattern, s, flags=re.IGNORECASE): the pieces between the
\* matches with the matched markers (the capturing group) between them;
\* start is the first position not yet emitted, i the scan position
RECURSIVE re_split_from(_, _, _)
re_split_from(s, start, i) ==
    IF i > Len(s) THEN <<SubSeq(s, start, Len(s))>>
    ELSE LET e == question_pattern(s, i)
         IN  IF e = 0 THEN re_split_from(s, start, i + 1)
             ELSE <<SubSeq(s, start, i - 1), SubSeq(s, i, e - 1)>>
                  \o re_split_from(s, e, e)

re_split(s) == re_split_from(s, 1, 1)

----------------------------------------------------------------------------
(* PDFProcessor.process_pdf: the documents the chunker is given *)

\* _detect_past_paper: re.search of each indicator, ignoring case
_detect_past_paper(text) ==
    \E i \in 1..Len(text) :
        \/ MatchShortMarker(text, i) # 0
        \/ MatchWordNumber(text, i, <<"Q", "u", "e", "s", "t", "i", "o", "n">>, TRUE) # 0
        \/ MatchTwoWords(text, i, <<"T", "o", "t", "a", "l">>, <<"M", "a", "r", "k", "s">>, TRUE) # 0
        \/ MatchTwoWords(text, i, <<"E", "x", "a", "m">>, <<"T", "i", "m", "e">>, TRUE) # 0
        \/ MatchTwoWords(text, i, <<"F", "i", "n", "a", "l">>, <<"E", "x", "a", "m">>, TRUE) # 0
        \/ MatchTwoWords(text, i, <<"M", "i", "d", "t", "e", "r", "m">>, <<"E", "x", "a", "m">>, TRUE) # 0
        \/ MatchLit(text, i, <<"Q", "u", "i", "z">>, TRUE) # 0

\* _extract_page_content for the page at 0-based index page_num; a raw page
\* is the text page.get_text() returns and the number of images on the page
_extract_page_content(raw, page_num) ==
    [page_number |-> page_num + 1,
     text |-> Strip(raw.text),
     images |-> [k \in 1..raw.images |-> [filename |-> "img", page |-> page_num + 1]],
     images_count |-> raw.images,
     char_count |-> Len(raw.text)]

RECURSIVE NonEmptyTexts(_)
NonEmptyTexts(pages) ==
    IF pages = << >> THEN << >>
    ELSE (IF Head(pages).text # << >> THEN <<Head(pages).text>> ELSE << >>)
         \o NonEmptyTexts(Tail(pages))

\* process_pdf on a readable file; of the metadata only the keys the chunker
\* and the index read are kept
process_pdf(file, doc_type) ==
    LET pages_content == [n \in 1..Len(file.pages) |-> _extract_page_content(file.pages[n], n - 1)]
        full_text == Join(<<"\n", "\n">>, NonEmptyTexts(pages_content))
    IN  [filename |-> file.filename,
         metadata |-> [doc_type |-> IF _detect_past_paper(full_text) THEN "past_paper" ELSE doc_type,
                       course |-> "Programming Fundamentals",
                       course_code |-> "CS-101"],
         pages |-> pages_content,
         full_text |-> full_text,
         total_pages |-> Len(file.pages),
         word_count |-> Len(SplitWs(full_text))]

----------------------------------------------------------------------------
(* TextChunker *)

_create_chunk(text, doc, chunk_type, metadata) ==
    [text |-> Strip(text),
     chunk_type |-> chunk_type,
     word_count |-> Len(SplitWs(text)),
     char_count |-> Len(text),
     source_document |-> doc.filename,
     doc_type |-> doc.metadata.doc_type,
     course |-> doc.metadata.course,
     course_code |-> doc.metadata.course_code,
     metadata |-> metadata]

RECURSIVE GenericLoopStopsAtEnd(_, _, _, _, _, _)
GenericLoopStopsAtEnd(ck, doc, words, start, chunk_id, chunks) ==
    IF start < Len(words)
    THEN LET end == start + ck.chunk_size
             chunk_words == Slice(words, start, end)
             chunk_text == Join(<<" ">>, chunk_words)
             emitted == Append(chunks, _create_chunk(chunk_text, doc, "generic",
                                                     [chunk_id |-> chunk_id]))
         IN  IF end >= Len(words) THEN emitted
             ELSE GenericLoopStopsAtEnd(ck, doc, words, end - ck.chunk_overlap,
                                        chunk_id + 1, emitted)
    ELSE chunks

\* the while loop of _chunk_generic; it ends only if chunk_overlap < chunk_size
RECURSIVE generic_loop(_, _, _, _, _, _)
generic_loop(ck, doc, words, start, chunk_id, chunks) ==
    IF start < Len(words)
    THEN LET end == start + ck.chunk_size
             chunk_words == Slice(words, start, end)
             chunk_text == Join(<<" ">>, chunk_words)
         IN  generic_loop(ck, doc, words, end - ck.chunk_overlap, chunk_id + 1,
                          Append(chunks, _create_chunk(chunk_text, doc, "generic",
                                                       [chunk_id |-> chunk_id])))
    ELSE chunks

_chunk_generic(ck, doc) ==
    generic_loop(ck, doc, SplitWs(doc.full_text), 0, 0, << >>)

PastPaperPartKeepsText(st, doc, part) ==
    IF question_pattern(part, 1) # 0
    THEN [chunks |-> IF st.current_chunk # << >> /\ st.current_question # << >>
                     THEN Append(st.chunks,
                                 _create_chunk(st.current_chunk, doc, "question",
                                               [question_id |-> st.current_question]))
                     ELSE st.chunks,
          current_question |-> part,
          current_chunk |-> st.current_chunk \o part]
    ELSE [st EXCEPT !.current_chunk = @ \o part]

\* the for loop of _chunk_past_paper over parts; st holds chunks,
\* current_chunk and current_question (the empty string standing for None:
\* the code only tests its truth and a marker is never empty)
past_paper_part(st, doc, part) ==
    IF question_pattern(part, 1) # 0
    THEN [chunks |-> IF st.current_chunk # << >> /\ st.current_question # << >>
                     THEN Append(st.chunks,
                                 _create_chunk(st.current_chunk, doc, "question",
                                               [question_id |-> st.current_question]))
                     ELSE st.chunks,
          current_question |-> part,
          current_chunk |-> part]
    ELSE [st EXCEPT !.current_chunk = @ \o part]

RECURSIVE PastPaperLoopKeepsFrontMatter(_, _, _)
PastPaperLoopKeepsFrontMatter(st, doc, parts) ==
    IF parts = << >> THEN st
    ELSE PastPaperLoopKeepsFrontMatter(
             past_paper_part([st EXCEPT !.current_question = IF @ = << >> THEN <<"0">> ELSE @],
                             doc, Head(parts)),
             doc, Tail(parts))

RECURSIVE past_paper_loop(_, _, _)
past_paper_loop(st, doc, parts) ==
    IF parts = << >> THEN st
    ELSE past_paper_loop(past_paper_part(st, doc, Head(parts)), doc, Tail(parts))

ChunkPastPaperOneMarker(ck, doc) ==
    LET parts == re_split(doc.full_text)
    IN  IF Len(parts) > 1
        THEN LET st == past_paper_loop([chunks |-> << >>, current_chunk |-> << >>,
                                        current_question |-> << >>], doc, parts)
             IN  IF st.current_chunk # << >> /\ st.current_question # << >>
                 THEN Append(st.chunks,
                             _create_chunk(st.current_chunk, doc, "question",
                                           [question_id |-> st.current_question]))
                 ELSE st.chunks
        ELSE _chunk_generic(ck, doc)

_chunk_past_paper(ck, doc) ==
    LET parts == re_split(doc.full_text)
    IN  IF Len(parts) > 3
        THEN LET st == past_paper_loop([chunks |-> << >>, current_chunk |-> << >>,
                                        current_question |-> << >>], doc, parts)
             IN  IF st.current_chunk # << >> /\ st.current_question # << >>
                 THEN Append(st.chunks,
                             _create_chunk(st.current_chunk, doc, "question",
                                           [question_id |-> st.current_question]))
                 ELSE st.chunks
        ELSE _chunk_generic(ck, doc)

\* _is_heading: re.match of each heading pattern on the stripped line
_is_heading(line) ==
    IF line = << >> \/ Len(line) < 3 THEN FALSE
    ELSE \/ \A k \in 1..Len(line) : line[k] \in UpperCase \cup RegexSpace
         \/ LET a == MatchPlus(line, 1, Digits) IN a # 0 /\ MatchOne(line, a, {"."}) # 0
         \/ MatchWordNumber(line, 1, <<"C", "h", "a", "p", "t", "e", "r">>, FALSE) # 0
         \/ MatchWordNumber(line, 1, <<"S", "e", "c", "t", "i", "o", "n">>, FALSE) # 0
         \/ LET a == MatchPlus(line, 1, {"I", "V", "X"}) IN a # 0 /\ MatchOne(line, a, {"."}) # 0

SectionTooLargeAtBound(ck, current_section) ==
    2 * Len(SplitWs(current_section)) >= 3 * ck.chunk_size

\* len(current_section.split()) > self.chunk_size * 1.5
section_too_large(ck, current_section) ==
    2 * Len(SplitWs(current_section)) > 3 * ck.chunk_size

NotesLineTagsNewHeading(st, ck, doc, line) ==
    LET line_stripped == Strip(line)
        s1 == IF _is_heading(line_stripped)
              THEN [chunks |-> IF st.current_section # << >>
                               THEN Append(st.chunks,
                                           _create_chunk(st.current_section, doc, "section",
                                                         [section_heading |-> line_stripped]))
                               ELSE st.chunks,
                    current_heading |-> line_stripped,
                    current_section |-> line_stripped \o <<"\n">>]
              ELSE [st EXCEPT !.current_section = @ \o line \o <<"\n">>]
    IN  IF section_too_large(ck, s1.current_section)
        THEN [s1 EXCEPT
                 !.chunks = Append(@, _create_chunk(s1.current_section, doc, "section",
                                                    [section_heading |-> s1.current_heading])),
                 !.current_section = << >>]
        ELSE s1

NotesLineStripsBody(st, ck, doc, line) ==
    LET line_stripped == Strip(line)
        s1 == IF _is_heading(line_stripped)
              THEN [chunks |-> IF st.current_section # << >>
                               THEN Append(st.chunks,
                                           _create_chunk(st.current_section, doc, "section",
                                                         [section_heading |-> st.current_heading]))
                               ELSE st.chunks,
                    current_heading |-> line_stripped,
                    current_section |-> line_stripped \o <<"\n">>]
              ELSE [st EXCEPT !.current_section = @ \o line_stripped \o <<"\n">>]
    IN  IF section_too_large(ck, s1.current_section)
        THEN [s1 EXCEPT
                 !.chunks = Append(@, _create_chunk(s1.current_section, doc, "section",
                                                    [section_heading |-> s1.current_heading])),
                 !.current_section = << >>]
        ELSE s1

\* the body of the for loop of _chunk_notes for one line; st holds chunks,
\* current_section and current_heading
notes_line(st, ck, doc, line) ==
    LET line_stripped == Strip(line)
        s1 == IF _is_heading(line_stripped)
              THEN [chunks |-> IF st.current_section # << >>
                               THEN Append(st.chunks,
                                           _create_chunk(st.current_section, doc, "section",
                                                         [section_heading |-> st.current_heading]))
                               ELSE st.chunks,
                    current_heading |-> line_stripped,
                    current_section |-> line_stripped \o <<"\n">>]
              ELSE [st EXCEPT !.current_section = @ \o line \o <<"\n">>]
    IN  IF section_too_large(ck, s1.current_section)
        THEN [s1 EXCEPT
                 !.chunks = Append(@, _create_chunk(s1.current_section, doc, "section",
                                                    [section_heading |-> s1.current_heading])),
                 !.current_section = << >>]
        ELSE s1

RECURSIVE notes_loop(_, _, _, _)
notes_loop(st, ck, doc, lines) ==
    IF lines = << >> THEN st
    ELSE notes_loop(notes_line(st, ck, doc, Head(lines)), ck, doc, Tail(lines))

_chunk_notes(ck, doc) ==
    LET st == notes_loop([chunks |-> << >>, current_section |-> << >>,
                          current_heading |-> <<"I", "n", "t", "r", "o", "d", "u", "c", "t", "i", "o", "n">>],
                         ck, doc, SplitOn(doc.full_text, "\n"))
        chunks == IF st.current_section # << >>
                  THEN Append(st.chunks,
                              _create_chunk(st.current_section, doc, "section",
                                            [section_heading |-> st.current_heading]))
                  ELSE st.chunks
    IN  IF chunks # << >> THEN chunks ELSE _chunk_generic(ck, doc)

RECURSIVE SlidesLoopKeepsEmptyPages(_, _, _)
SlidesLoopKeepsEmptyPages(chunks, doc, pages) ==
    IF pages = << >> THEN chunks
    ELSE LET page == Head(pages)
         IN  SlidesLoopKeepsEmptyPages(
                 Append(chunks,
                        _create_chunk(page.text, doc, "slide",
                                      [page_number |-> page.page_number,
                                       has_images |-> page.images_count > 0,
                                       images |-> page.images])),
                 doc, Tail(pages))

\* the for loop of _chunk_slides over document['pages']
RECURSIVE slides_loop(_, _, _)
slides_loop(chunks, doc, pages) ==
    IF pages = << >> THEN chunks
    ELSE LET page == Head(pages)
         IN  slides_loop(IF Strip(page.text) # << >>
                         THEN Append(chunks,
                                     _create_chunk(page.text, doc, "slide",
                                                   [page_number |-> page.page_number,
                                                    has_images |-> page.images_count > 0,
                                                    images |-> page.images]))
                         ELSE chunks,
                         doc, Tail(pages))

_chunk_slides(doc) == slides_loop(<< >>, doc, doc.pages)

chunk_document(ck, doc) ==
    LET doc_type == GetOr(doc.metadata, "doc_type", "unknown")
    IN  IF doc_type = "past_paper" THEN _chunk_past_paper(ck, doc)
        ELSE IF doc_type = "notes" THEN _chunk_notes(ck, doc)
        ELSE IF doc_type = "slides" THEN _chunk_slides(doc)
        ELSE _chunk_generic(ck, doc)

MaxChunkSize == 4
MaxPages == 3
MaxChunkCalls == 2

\* TextChunker(chunk_size, chunk_overlap) with chunk_overlap < chunk_size
ChunkerConfigs ==
    {c \in [chunk_size : 1..MaxChunkSize, chunk_overlap : 0..(MaxChunkSize - 1)] :
        c.chunk_overlap < c.chunk_size}

\* the PDF files of up to MaxPages pages whose page texts are drawn from texts
PdfFiles(texts, image_counts) ==
    {[filename |-> "doc.pdf", pages |-> ps] :
        ps \in SeqsUpTo([text : texts, images : image_counts], MaxPages)}

GenericPageTexts == {<< >>, <<" ", "a", " ">>, <<"b", " ", "c">>, <<"d", "\n", "e", " ", " ", "f">>}

PaperPageTexts ==
    {<< >>, <<"Q", "1", ".", " ", "a">>, <<"i", "n", "t", "r", "o">>, <<"Q", "u", "e", "s", "t", "i", "o", "n", " ", "2", ":", " ", "b", " ", "c">>, <<"q", "3", ")", "d", " ", "Q", "4", ":">>, <<"Q", " ", "5", ".">>, <<"q", "u", "e", "s", "t", "i", "o", "n", "\n", "6", ")", " ", "e">>}

NotesPageTexts == {<< >>, <<"a", "b", " ", "c", "d">>, <<"e">>, <<"I", "N", "T", "R", "O">>, <<"x", "\n", "1", ".", " ", "O", "N", "\n", "y", " ", "z">>, <<"f", " ", "\n", "\t", "g">>}

SlidesPageTexts == {<< >>, <<" ", "\n">>, <<"H", "e", "l", "l", "o">>, <<" ", "Q", "u", "i", "z", " ", "1">>}

\* the strategies that follow the document's structure read chunk_overlap only
\* when they fall back to the generic strategy
StructuredConfigs == {c \in ChunkerConfigs : c.chunk_overlap <= 1}

ChunkStart(configs) ==
    /\ chunker \in configs
    /\ document = << >>
    /\ chunk_log = << >>

GenericInit ==
    /\ pdf \in [file : PdfFiles(GenericPageTexts, {0}), doc_type : {"handbook"}]
    /\ ChunkStart(ChunkerConfigs)

PaperInit ==
    /\ pdf \in [file : PdfFiles(PaperPageTexts, {0}), doc_type : {"past_paper", "unknown"}]
    /\ ChunkStart(StructuredConfigs)

NotesInit ==
    /\ pdf \in [file : PdfFiles(NotesPageTexts, {0}), doc_type : {"notes"}]
    /\ ChunkStart(StructuredConfigs)

SlidesInit ==
    /\ pdf \in [file : PdfFiles(SlidesPageTexts, {0, 1}), doc_type : {"slides"}]
    /\ ChunkStart(StructuredConfigs)

\* processor.process_pdf(path, doc_type)
ProcessPdf ==
    /\ document = << >>
    /\ document' = <<process_pdf(pdf.file, pdf.doc_type)>>
    /\ UNCHANGED <<pdf, chunker, chunk_log>>

\* chunker.chunk_document(processed_doc)
ChunkDocument ==
    /\ document # << >>
    /\ chunk_log = << >>
    /\ chunk_log' = <<chunk_document(chunker, document[1])>>
    /\ UNCHANGED <<pdf, chunker, document>>

RechunkPageTexts ==
    {<< >>, <<"d", "\n", "e", " ", " ", "f">>, <<"Q", "1", ".", " ", "a">>,
     <<"I", "N", "T", "R", "O", "\n", "y", " ", "z">>}

RechunkInit ==
    /\ pdf \in [file : PdfFiles(RechunkPageTexts, {0}),
                doc_type : {"handbook", "notes", "slides", "past_paper"}]
    /\ ChunkStart(StructuredConfigs)

ChunkDocumentAgainConsumes ==
    /\ chunk_log # << >>
    /\ Len(chunk_log) < MaxChunkCalls
    /\ chunk_log' = Append(chunk_log, chunk_document(chunker, document[1]))
    /\ document' = <<[document[1] EXCEPT !.full_text = << >>, !.pages = << >>]>>
    /\ UNCHANGED <<pdf, chunker>>

\* a further call chunker.chunk_document(processed_doc) on the same chunker
\* and the same document
ChunkDocumentAgain ==
    /\ chunk_log # << >>
    /\ Len(chunk_log) < MaxChunkCalls
    /\ chunk_log' = Append(chunk_log, chunk_document(chunker, document[1]))
    /\ UNCHANGED <<pdf, chunker, document>>

GenericIterationSkipsShortWindow(ck, doc, it) ==
    LET end == it.start + ck.chunk_size
        chunk_words == Slice(it.words, it.start, end)
        chunk_text == Join(<<" ">>, chunk_words)
    IN  [words |-> it.words,
         start |-> end - ck.chunk_overlap,
         chunk_id |-> it.chunk_id + 1,
         chunks |-> IF Len(chunk_words) < ck.chunk_size THEN it.chunks
                    ELSE Append(it.chunks, _create_chunk(chunk_text, doc, "generic",
                                                         [chunk_id |-> it.chunk_id]))]

\* the body of the while loop of _chunk_generic; it holds words, start,
\* chunk_id and chunks
generic_iteration(ck, doc, it) ==
    LET end == it.start + ck.chunk_size
        chunk_words == Slice(it.words, it.start, end)
        chunk_text == Join(<<" ">>, chunk_words)
    IN  [words |-> it.words,
         start |-> end - ck.chunk_overlap,
         chunk_id |-> it.chunk_id + 1,
         chunks |-> Append(it.chunks, _create_chunk(chunk_text, doc, "generic",
                                                    [chunk_id |-> it.chunk_id]))]

\* _chunk_generic iteration by iteration: the state before the while loop
GenericBegin ==
    /\ document # << >>
    /\ document[1].metadata.doc_type \notin {"past_paper", "notes", "slides"}
    /\ pass = << >>
    /\ chunk_log = << >>
    /\ pass' = <<[words |-> SplitWs(document[1].full_text), start |-> 0,
                  chunk_id |-> 0, chunks |-> << >>]>>
    /\ UNCHANGED <<pdf, chunker, document, chunk_log>>

\* one iteration of the while loop: start < len(words)
GenericIteration ==
    /\ pass # << >>
    /\ pass[1].start < Len(pass[1].words)
    /\ pass' = <<generic_iteration(chunker, document[1], pass[1])>>
    /\ UNCHANGED <<pdf, chunker, document, chunk_log>>

\* the loop condition fails and the chunks are returned
GenericEnd ==
    /\ pass # << >>
    /\ pass[1].start >= Len(pass[1].words)
    /\ chunk_log = << >>
    /\ chunk_log' = <<pass[1].chunks>>
    /\ UNCHANGED <<pdf, chunker, document, pass>>

\* _chunk_notes line by line: the state before the for loop
NotesBegin ==
    /\ document # << >>
    /\ document[1].metadata.doc_type = "notes"
    /\ pass = << >>
    /\ chunk_log = << >>
    /\ pass' = <<[st |-> [chunks |-> << >>, current_section |-> << >>,
                          current_heading |-> <<"I", "n", "t", "r", "o", "d", "u", "c", "t", "i", "o", "n">>],
                  lines |-> SplitOn(document[1].full_text, "\n")]>>
    /\ UNCHANGED <<pdf, chunker, document, chunk_log>>

\* one iteration of the for loop of _chunk_notes
NotesLine ==
    /\ pass # << >>
    /\ pass[1].lines # << >>
    /\ pass' = <<[st |-> notes_line(pass[1].st, chunker, document[1], Head(pass[1].lines)),
                  lines |-> Tail(pass[1].lines)]>>
    /\ UNCHANGED <<pdf, chunker, document, chunk_log>>

\* after the loop: the last section is saved and the chunks are returned
NotesEnd ==
    /\ pass # << >>
    /\ pass[1].lines = << >>
    /\ chunk_log = << >>
    /\ LET st == pass[1].st
           chunks == IF st.current_section # << >>
                     THEN Append(st.chunks,
                                 _create_chunk(st.current_section, document[1], "section",
                                               [section_heading |-> st.current_heading]))
                     ELSE st.chunks
       IN  chunk_log' = <<IF chunks # << >> THEN chunks
                          ELSE _chunk_generic(chunker, document[1])>>
    /\ UNCHANGED <<pdf, chunker, document, pass>>

----------------------------------------------------------------------------
(* RetrieverAgent.retrieve, AnswerAgent and PFCourseAssistant.ask *)

Min(a, b) == IF a <= b THEN a ELSE b

RetrieveScoreIsDistance(results) ==
    IF results.documents # << >>
    THEN [k \in 1..Min(Len(results.documents), Min(Len(results.metadatas), Len(results.distances))) |->
             [text |-> results.documents[k],
              metadata |-> results.metadatas[k],
              relevance_score |-> results.distances[k]]]
    ELSE << >>

\* retrieve: results is what collection.query returned for the one query
\* (results['documents'][0], results['metadatas'][0], results['distances'][0]);
\* distances are in hundredths, so 1 - distance is 100 - distance
retrieve(results) ==
    IF results.documents # << >>
    THEN [k \in 1..Min(Len(results.documents), Min(Len(results.metadatas), Len(results.distances))) |->
             [text |-> results.documents[k],
              metadata |-> results.metadatas[k],
              relevance_score |-> 100 - results.distances[k]]]
    ELSE << >>

CollectionQueryIgnoresWhere(entries, n_results, where) ==
    LET nearest == Slice(entries, 0, n_results)
    IN  [documents |-> [k \in 1..Len(nearest) |-> nearest[k].document],
         metadatas |-> [k \in 1..Len(nearest) |-> nearest[k].metadata],
         distances |-> [k \in 1..Len(nearest) |-> nearest[k].distance]]

\* self.collection.query(query_embeddings, n_results, where) for one query:
\* of the entries whose metadata match where (all of them when where is
\* None), the n_results nearest, nearest first; entries come ordered by
\* distance to the query
collection_query(entries, n_results, where) ==
    LET Matches(e) == where = << >> \/ e.metadata.doc_type = where[1].doc_type
        nearest == Slice(SelectSeq(entries, Matches), 0, n_results)
    IN  [documents |-> [k \in 1..Len(nearest) |-> nearest[k].document],
         metadatas |-> [k \in 1..Len(nearest) |-> nearest[k].metadata],
         distances |-> [k \in 1..Len(nearest) |-> nearest[k].distance]]

\* _build_context: one "[Source i: source]\ntext\n" block per document, in order
_build_context(docs) ==
    [i \in 1..Len(docs) |->
        [label |-> i,
         source |-> GetOr(docs[i].metadata, "source_document", "Unknown"),
         text |-> docs[i].text]]

\* _create_prompt: the fixed template around the context and the query
_create_prompt(query, context) == [context |-> context, query |-> query]

CallOllamaIgnoresStatus(prompt, reply) ==
    IF reply.raised # None THEN <<"Error calling Ollama", reply.raised>>
    ELSE IF ~reply.json_ok THEN <<"Error calling Ollama", "JSONDecodeError">>
    ELSE GetOr(reply.body, "response", <<"No response generated">>)

\* _call_ollama: reply is what requests.post did with the prompt
_call_ollama(prompt, reply) ==
    IF reply.raised # None THEN <<"Error calling Ollama", reply.raised>>
    ELSE IF reply.status_code = 200
         THEN IF ~reply.json_ok THEN <<"Error calling Ollama", "JSONDecodeError">>
              ELSE GetOr(reply.body, "response", <<"No response generated">>)
         ELSE <<"Error: Could not generate answer (Status: ", ToString(reply.status_code), ")">>

OllamaPostsRetrying(prompt, reply) ==
    IF reply.raised # None \/ reply.status_code # 200 THEN <<prompt, prompt>> ELSE <<prompt>>

\* the requests _call_ollama posts to the generation service: the one
\* requests.post, whatever it returns or raises
ollama_posts(prompt, reply) == <<prompt>>

\* context_docs[:3]
FirstThree(docs) == Slice(docs, 0, 3)

generate_answer(query, context_docs, reply) ==
    LET context == _build_context(context_docs)
        prompt == _create_prompt(query, context)
        answer == _call_ollama(prompt, reply)
    IN  [question |-> query,
         answer |-> answer,
         sources |-> [k \in 1..Len(FirstThree(context_docs)) |->
                         context_docs[k].metadata.source_document],
         context_used |-> Len(context_docs)]

\* the requests generate_answer posts
generate_answer_posts(query, context_docs, reply) ==
    ollama_posts(_create_prompt(query, _build_context(context_docs)), reply)

\* the requests PFCourseAssistant.ask posts
ask_posts(question, results, reply) ==
    LET docs == retrieve(results)
    IN  IF docs = << >> THEN << >>
        ELSE generate_answer_posts(question, docs, reply)

\* PFCourseAssistant.ask
ask(question, results, reply) ==
    LET docs == retrieve(results)
    IN  IF docs = << >> THEN [error |-> "No relevant information found"]
        ELSE generate_answer(question, docs, reply)

\* QuizAgent.generate_quiz: what it returns or raises
GenerateQuizWithoutMarker(topic, num_questions, results, reply) ==
    LET docs == retrieve(results)
        context == [k \in 1..Len(Slice(docs, 0, 5)) |-> docs[k].text]
        prompt == [context |-> context, topic |-> topic, num_questions |-> num_questions]
        parsed == _parse_quiz(_call_ollama(prompt, reply))
    IN  IF docs = << >>
        THEN Returned([topic |-> topic, questions |-> << >>])
        ELSE IF parsed.raised # None THEN Raised(parsed.raised)
        ELSE Returned([topic |-> topic,
                       num_questions |-> Len(parsed.value),
                       questions |-> parsed.value,
                       sources |-> [k \in 1..Len(FirstThree(docs)) |->
                                       docs[k].metadata.source_document]])

\* QuizAgent.generate_quiz answering an empty retrieval with the error alone
GenerateQuizErrorOnly(topic, num_questions, results, reply) ==
    LET docs == retrieve(results)
        context == [k \in 1..Len(Slice(docs, 0, 5)) |-> docs[k].text]
        prompt == [context |-> context, topic |-> topic, num_questions |-> num_questions]
        parsed == _parse_quiz(_call_ollama(prompt, reply))
    IN  IF docs = << >>
        THEN Returned([error |-> "No relevant content found for this topic"])
        ELSE IF parsed.raised # None THEN Raised(parsed.raised)
        ELSE Returned([topic |-> topic,
                       num_questions |-> Len(parsed.value),
                       questions |-> parsed.value,
                       sources |-> [k \in 1..Len(FirstThree(docs)) |->
                                       docs[k].metadata.source_document]])

generate_quiz(topic, num_questions, results, reply) ==
    LET docs == retrieve(results)
        context == [k \in 1..Len(Slice(docs, 0, 5)) |-> docs[k].text]
        prompt == [context |-> context, topic |-> topic, num_questions |-> num_questions]
        parsed == _parse_quiz(_call_ollama(prompt, reply))
    IN  IF docs = << >>
        THEN Returned([topic |-> topic,
                       questions |-> << >>,
                       error |-> "No relevant content found for this topic"])
        ELSE IF parsed.raised # None THEN Raised(parsed.raised)
        ELSE Returned([topic |-> topic,
                       num_questions |-> Len(parsed.value),
                       questions |-> parsed.value,
                       sources |-> [k \in 1..Len(FirstThree(docs)) |->
                                       docs[k].metadata.source_document]])

\* the requests generate_quiz posts
generate_quiz_posts(topic, num_questions, results, reply) ==
    LET docs == retrieve(results)
        context == [k \in 1..Len(Slice(docs, 0, 5)) |-> docs[k].text]
        prompt == [context |-> context, topic |-> topic, num_questions |-> num_questions]
    IN  IF docs = << >> THEN << >> ELSE ollama_posts(prompt, reply)

MaxHits == 4
MaxReplyLines == 3

SourceDocuments == {"a.pdf", "b.pdf", "c.pdf"}

\* what the collection returns: up to MaxHits neighbours, nearest first
StoreResults ==
    {[documents |-> [k \in 1..Len(srcs) |-> "t"],
      metadatas |-> [k \in 1..Len(srcs) |-> [source_document |-> srcs[k], chunk_type |-> "generic"]],
      distances |-> [k \in 1..Len(srcs) |-> 10 * k]] :
        srcs \in SeqsUpTo(SourceDocuments, MaxHits)}

MaxIndex == 3

\* distances to the query, in hundredths
Distances == {0, 40, 120}

\* the collections of up to MaxIndex entries, ordered by distance to the query
Indexes ==
    {es \in SeqsUpTo([document : {"t"},
                      metadata : [source_document : {"a.pdf"}, doc_type : {"notes", "slides"}],
                      distance : Distances], MaxIndex) :
        \A k \in 1..(Len(es) - 1) : es[k].distance <= es[k + 1].distance}

\* retrieve(query, n_results, filter_dict); << >> stands for filter_dict = None
Searches ==
    [n_results : {2, 5},
     filter_dict : {<< >>} \cup {<<[doc_type |-> t]>> : t \in {"notes", "slides", "past_paper"}}]

RetrieveInit ==
    /\ index \in Indexes
    /\ search \in Searches
    /\ retrieve_log = << >>

\* retriever.retrieve(query, n_results, filter_dict)
Retrieve ==
    /\ retrieve_log = << >>
    /\ retrieve_log' = <<retrieve(collection_query(index, search.n_results, search.filter_dict))>>
    /\ UNCHANGED <<index, search>>

\* what the generation service does with one request
LlmReplies ==
    {[raised |-> None, status_code |-> 200, json_ok |-> TRUE, body |-> [response |-> <<"an answer">>]],
     [raised |-> None, status_code |-> 200, json_ok |-> TRUE, body |-> [error |-> <<"model not found">>]],
     [raised |-> None, status_code |-> 200, json_ok |-> FALSE, body |-> << >>],
     [raised |-> None, status_code |-> 500, json_ok |-> FALSE, body |-> << >>],
     [raised |-> "Timeout", status_code |-> 0, json_ok |-> FALSE, body |-> << >>],
     [raised |-> "ConnectionError", status_code |-> 0, json_ok |-> FALSE, body |-> << >>]}

\* what the collection returns for a quiz topic
QuizStoreResults == {r \in StoreResults : Len(r.documents) <= 2}

\* what the generation service does with a quiz request: a generated text of
\* up to MaxReplyLines lines, or one of the failures
QuizReplies ==
    {[raised |-> None, status_code |-> 200, json_ok |-> TRUE, body |-> [response |-> Join(<<"\n">>, ls)]] :
        ls \in SeqsUpTo(ParseLines, MaxReplyLines)}
    \cup {r \in LlmReplies : "response" \notin DOMAIN r.body}

QuizInit ==
    /\ store_hits \in QuizStoreResults
    /\ llm_reply \in QuizReplies
    /\ ask_log = << >>
    /\ quiz_log = << >>
    /\ llm_posts = << >>

\* assistant.generate_quiz(topic, num_questions)
GenerateQuiz ==
    /\ quiz_log = << >>
    /\ quiz_log' = <<generate_quiz("pointers", 5, store_hits, llm_reply)>>
    /\ llm_posts' = llm_posts \o generate_quiz_posts("pointers", 5, store_hits, llm_reply)
    /\ UNCHANGED <<store_hits, llm_reply, ask_log>>

AskInit ==
    /\ store_hits \in StoreResults
    /\ llm_reply \in LlmReplies
    /\ ask_log = << >>
    /\ quiz_log = << >>
    /\ llm_posts = << >>

\* assistant.ask(question)
Ask ==
    /\ ask_log = << >>
    /\ ask_log' = <<ask("What are pointers?", store_hits, llm_reply)>>
    /\ llm_posts' = llm_posts \o ask_posts("What are pointers?", store_hits, llm_reply)
    /\ UNCHANGED <<store_hits, llm_reply, quiz_log>>

\* a call grade_quiz(quiz, answers) on any dict: quiz['questions'] and
\* question['question'] raise KeyError when the key is missing
grade_quiz_call(q, answer_map) ==
    IF "questions" \notin DOMAIN q THEN Raised("KeyError")
    ELSE IF \E i \in 1..Len(q["questions"]) : "question" \notin DOMAIN q["questions"][i]
    THEN Raised("KeyError")
    ELSE Returned(grade_quiz(q, answer_map))

\* what the collection returns for a quiz topic: nothing or one document
ComposeStoreResults == {r \in StoreResults : Len(r.documents) <= 1}

\* answer mappings: empty, for every question, for some, with a key that is
\* no question number
ComposeAnswers ==
    {<< >>,
     [k \in 1..MaxReplyLines |-> "B"],
     [k \in {1} |-> "a"],
     [k \in {2, 3} |-> IF k = 2 THEN "B" ELSE "X"],
     [k \in {0, 7} |-> "A"]}

ComposeInit ==
    /\ store_hits \in ComposeStoreResults
    /\ llm_reply \in QuizReplies
    /\ ask_log = << >>
    /\ quiz_log = << >>
    /\ llm_posts = << >>
    /\ quiz = [topic |-> "arrays", questions |-> << >>]
    /\ answers = << >>
    /\ grade_log = << >>

\* results = agent.grade_quiz(quiz, student_answers) on the quiz that
\* generate_quiz returned
GradeGenerated ==
    /\ quiz_log # << >>
    /\ quiz_log[1].raised = None
    /\ grade_log = << >>
    /\ \E student_answers \in ComposeAnswers :
           /\ answers' = student_answers
           /\ quiz' = quiz_log[1].value
           /\ grade_log' = <<grade_quiz_call(quiz_log[1].value, student_answers)>>
    /\ UNCHANGED <<store_hits, llm_reply, ask_log, quiz_log, llm_posts>>

----------------------------------------------------------------------------
(* EmbeddingGenerator.add_chunks_to_vectorstore and the /upload-pdf endpoint *)

\* the metadata stored with a chunk
chunk_metadata(chunk) ==
    LET metadata == [source_document |-> chunk.source_document,
                     doc_type |-> chunk.doc_type,
                     chunk_type |-> chunk.chunk_type,
                     course |-> chunk.course,
                     course_code |-> chunk.course_code,
                     word_count |-> chunk.word_count]
        m1 == IF "question_id" \in DOMAIN chunk.metadata
              THEN DictSet(metadata, "question_id", chunk.metadata.question_id)
              ELSE metadata
        m2 == IF "section_heading" \in DOMAIN chunk.metadata
              THEN DictSet(m1, "section_heading", chunk.metadata.section_heading)
              ELSE m1
    IN  IF "page_number" \in DOMAIN chunk.metadata
        THEN DictSet(m2, "page_number", Numeral(chunk.metadata.page_number))
        ELSE m2

\* ids that name the source document as well as the position
ChunkIdsBySource(chunks) ==
    [i \in 1..Len(chunks) |->
        <<chunks[i].source_document, "_">> \o Numeral(i - 1)]

\* ids = [f"chunk_{i}" for i in range(len(chunks))]
chunk_ids(chunks) ==
    [i \in 1..Len(chunks) |-> <<"c", "h", "u", "n", "k", "_">> \o Numeral(i - 1)]

\* collection.add of the store: a batch naming an identifier that is already
\* stored is refused as a whole by a store that raises on duplicates, and
\* loses the records of those identifiers on a store that skips them
collection_add(coll, ids, documents, metadatas) ==
    LET taken == {ids[i] : i \in 1..Len(ids)} \cap DOMAIN coll.records
        position(id) == CHOOSE i \in 1..Len(ids) : ids[i] = id
    IN  IF taken # {} /\ coll.duplicates = "raise"
        THEN [raised |-> "DuplicateIDError", collection |-> coll]
        ELSE [raised |-> None,
              collection |->
                  [coll EXCEPT !.records =
                      [id \in DOMAIN @ \cup {ids[i] : i \in 1..Len(ids)} |->
                          IF id \in DOMAIN @ THEN @[id]
                          ELSE [document |-> documents[position(id)],
                                metadata |-> metadatas[position(id)]]]]]

\* the collection after add_chunks_to_vectorstore(chunks); an exception of the
\* store is printed and not raised again
add_chunks_to_vectorstore(coll, chunks) ==
    IF chunks = << >> THEN coll
    ELSE LET texts == [i \in 1..Len(chunks) |-> chunks[i].text]
             metadatas == [i \in 1..Len(chunks) |-> chunk_metadata(chunks[i])]
             ids == chunk_ids(chunks)
         IN  collection_add(coll, ids, texts, metadatas).collection

\* TextChunker() of the endpoint: the default window and overlap, at the scale
\* of the model
UploadChunker == [chunk_size |-> MaxChunkSize, chunk_overlap |-> 1]

\* the endpoint on an uploaded file: the collection afterwards and the response
upload_pdf(coll, file, doc_type) ==
    IF ~file.readable
    THEN [collection |-> coll,
          response |-> [status_code |-> 500, detail |-> "400: Failed to process PDF"]]
    ELSE LET processed_doc == process_pdf(file, doc_type)
             chunks == chunk_document(UploadChunker, processed_doc)
         IN  [collection |-> add_chunks_to_vectorstore(coll, chunks),
              response |-> [status_code |-> 200,
                            status |-> "success",
                            filename |-> file.filename,
                            pages |-> processed_doc.total_pages,
                            chunks_added |-> Len(chunks),
                            message |-> "PDF processed and added to knowledge base"]]

MaxUploads == 2

\* a handbook, lecture notes followed by a slide, an exam paper, a file without
\* pages and a file that cannot be opened
UploadFiles ==
    {[filename |-> "a.pdf", readable |-> TRUE,
      pages |-> <<[text |-> <<"b", " ", "c", " ", "d", " ", "e", " ", "f", " ", "g", " ", "h", " ", "i">>, images |-> 0]>>],
     [filename |-> "b.pdf", readable |-> TRUE,
      pages |-> <<[text |-> <<"I", "N", "T", "R", "O", "\n", "y", " ", "z">>, images |-> 0],
                  [text |-> <<"H", "e", "l", "l", "o">>, images |-> 1]>>],
     [filename |-> "c.pdf", readable |-> TRUE,
      pages |-> <<[text |-> <<"Q", "1", ".", " ", "a">>, images |-> 0],
                  [text |-> <<"Q", "u", "e", "s", "t", "i", "o", "n", " ", "2", ":", " ", "b", " ", "c">>, images |-> 0]>>],
     [filename |-> "d.pdf", readable |-> TRUE, pages |-> << >>],
     [filename |-> "bad.pdf", readable |-> FALSE, pages |-> << >>]}

UploadDocTypes == {"notes", "slides", "handbook"}

\* an empty collection, on a store of either behaviour
IngestInit ==
    /\ collection \in [records : {<< >>}, duplicates : {"raise", "skip"}]
    /\ api_log = << >>

\* POST /upload-pdf
UploadPdf ==
    /\ Len(api_log) < MaxUploads
    /\ \E file \in UploadFiles, doc_type \in UploadDocTypes :
           LET r == upload_pdf(collection, file, doc_type)
           IN  /\ collection' = r.collection
               /\ api_log' = Append(api_log, [file |-> file, doc_type |-> doc_type,
                                              response |-> r.response])

----------------------------------------------------------------------------
(* The /ask and /quiz/generate endpoints, with the assistant initialised *)

\* the response FastAPI sends for an HTTPException that leaves the handler
HTTPException(status_code, detail) == [status_code |-> status_code, detail |-> detail]

\* the body of the try block of a handler, on what the assistant returned or
\* raised: the exception it ends with, if any, and the response otherwise
try_block(outcome) ==
    IF outcome.raised # None
    THEN [raised |-> outcome.raised, detail |-> <<outcome.raised>>, value |-> None]
    ELSE IF "error" \in DOMAIN outcome.value
    THEN [raised |-> "HTTPException", detail |-> <<"404: ", outcome.value.error>>,
          value |-> None]
    ELSE [raised |-> None, detail |-> << >>,
          value |-> [status_code |-> 200, body |-> outcome.value]]

\* a handler: except Exception as e: raise HTTPException(500, str(e)), which
\* also catches the HTTPException of the try block
handler(outcome) ==
    LET tried == try_block(outcome)
    IN  IF tried.raised # None THEN HTTPException(500, tried.detail)
        ELSE tried.value

ask_question(question, results, reply) ==
    handler(Returned(ask(question, results, reply)))

quiz_generate(topic, num_questions, results, reply) ==
    handler(generate_quiz(topic, num_questions, results, reply))

\* the replies of the generation service: the failures, an answer, and quiz
\* texts of up to two lines
ApiReplies ==
    LlmReplies
    \cup {r \in QuizReplies :
             "response" \in DOMAIN r.body => Len(SplitOn(r.body.response, "\n")) <= 2}

ApiInit ==
    /\ store_hits \in QuizStoreResults
    /\ llm_reply \in ApiReplies
    /\ ask_log = << >>
    /\ quiz_log = << >>
    /\ llm_posts = << >>
    /\ collection = << >>
    /\ api_log = << >>

\* POST /ask
PostAsk ==
    /\ Ask
    /\ api_log' = Append(api_log,
                         [path |-> "/ask",
                          response |-> ask_question("What are pointers?", store_hits, llm_reply)])
    /\ UNCHANGED collection

\* POST /quiz/generate
PostQuizGenerate ==
    /\ GenerateQuiz
    /\ api_log' = Append(api_log,
                         [path |-> "/quiz/generate",
                          response |-> quiz_generate("pointers", 5, store_hits, llm_reply)])
    /\ UNCHANGED collection

----------------------------------------------------------------------------
(* Specifications *)

ParseIdle == quiz_text = << >> /\ parse_log = << >>
ChunkIdle == pdf = << >> /\ chunker = << >> /\ document = << >> /\ chunk_log = << >>
AskIdle ==
    /\ store_hits = << >>
    /\ llm_reply = << >>
    /\ ask_log = << >>
    /\ quiz_log = << >>
    /\ llm_posts = << >>

PassIdle == pass = << >>

IngestIdle == collection = << >> /\ api_log = << >>

RetrieveIdle == index = << >> /\ search = << >> /\ retrieve_log = << >>

GradeNext == GradeQuiz /\ UNCHANGED <<quiz_text, parse_log, pdf, chunker, document, chunk_log, store_hits, llm_reply, ask_log, quiz_log, llm_posts, index, search, retrieve_log, pass, collection, api_log>>

ParseNext == ParseQuiz /\ UNCHANGED <<quiz, answers, grade_log, pdf, chunker, document, chunk_log, store_hits, llm_reply, ask_log, quiz_log, llm_posts, index, search, retrieve_log, pass, collection, api_log>>

InitParse == ParseInit /\ GradeIdle /\ ChunkIdle /\ AskIdle /\ RetrieveIdle /\ PassIdle /\ IngestIdle

SpecParse == InitParse /\ [][ParseNext]_vars

InitRoundTrip == RoundTripInit /\ ChunkIdle /\ AskIdle /\ RetrieveIdle /\ PassIdle /\ IngestIdle

SpecRoundTrip == InitRoundTrip /\ [][ParseNext]_vars

ChunkNext ==
    /\ ProcessPdf \/ ChunkDocument
    /\ UNCHANGED <<quiz, answers, grade_log, quiz_text, parse_log, store_hits, llm_reply, ask_log, quiz_log, llm_posts, index, search, retrieve_log, pass, collection, api_log>>

InitGeneric == GenericInit /\ GradeIdle /\ ParseIdle /\ AskIdle /\ RetrieveIdle /\ PassIdle /\ IngestIdle

SpecGeneric == InitGeneric /\ [][ChunkNext]_vars

InitPaper == PaperInit /\ GradeIdle /\ ParseIdle /\ AskIdle /\ RetrieveIdle /\ PassIdle /\ IngestIdle

SpecPaper == InitPaper /\ [][ChunkNext]_vars

InitNotes == NotesInit /\ GradeIdle /\ ParseIdle /\ AskIdle /\ RetrieveIdle /\ PassIdle /\ IngestIdle

SpecNotes == InitNotes /\ [][ChunkNext]_vars

AskNext == Ask /\ UNCHANGED <<quiz, answers, grade_log, quiz_text, parse_log, pdf, chunker, document, chunk_log, index, search, retrieve_log, pass, collection, api_log>>

InitSlides == SlidesInit /\ GradeIdle /\ ParseIdle /\ AskIdle /\ RetrieveIdle /\ PassIdle /\ IngestIdle

SpecSlides == InitSlides /\ [][ChunkNext]_vars

InitAsk == AskInit /\ GradeIdle /\ ParseIdle /\ ChunkIdle /\ RetrieveIdle /\ PassIdle /\ IngestIdle

SpecAsk == InitAsk /\ [][AskNext]_vars

QuizNext == GenerateQuiz /\ UNCHANGED <<quiz, answers, grade_log, quiz_text, parse_log, pdf, chunker, document, chunk_log, index, search, retrieve_log, pass, collection, api_log>>

InitQuiz == QuizInit /\ GradeIdle /\ ParseIdle /\ ChunkIdle /\ RetrieveIdle /\ PassIdle /\ IngestIdle

SpecQuiz == InitQuiz /\ [][QuizNext]_vars

RechunkNext ==
    /\ ProcessPdf \/ ChunkDocument \/ ChunkDocumentAgain
    /\ UNCHANGED <<quiz, answers, grade_log, quiz_text, parse_log, store_hits, llm_reply, ask_log, quiz_log, llm_posts, index, search, retrieve_log, pass, collection, api_log>>

InitRechunk == RechunkInit /\ GradeIdle /\ ParseIdle /\ AskIdle /\ RetrieveIdle /\ PassIdle /\ IngestIdle

SpecRechunk == InitRechunk /\ [][RechunkNext]_vars

NotesLinesNext ==
    /\ \/ ProcessPdf /\ UNCHANGED pass
       \/ NotesBegin
       \/ NotesLine
       \/ NotesEnd
    /\ UNCHANGED <<quiz, answers, grade_log, quiz_text, parse_log, store_hits, llm_reply, ask_log, quiz_log, llm_posts, index, search, retrieve_log, collection, api_log>>

InitNotesLines == NotesInit /\ PassIdle /\ GradeIdle /\ ParseIdle /\ AskIdle /\ RetrieveIdle /\ IngestIdle

SpecNotesLines == InitNotesLines /\ [][NotesLinesNext]_vars

GenericLoopNext ==
    /\ \/ ProcessPdf /\ UNCHANGED pass
       \/ GenericBegin
       \/ GenericIteration
       \/ GenericEnd
    /\ UNCHANGED <<quiz, answers, grade_log, quiz_text, parse_log, store_hits, llm_reply, ask_log, quiz_log, llm_posts, index, search, retrieve_log, collection, api_log>>

InitGenericLoop == GenericInit /\ PassIdle /\ GradeIdle /\ ParseIdle /\ AskIdle /\ RetrieveIdle /\ IngestIdle

SpecGenericLoop == InitGenericLoop /\ [][GenericLoopNext]_vars

RetrieveNext == Retrieve /\ UNCHANGED <<quiz, answers, grade_log, quiz_text, parse_log, pdf, chunker, document, chunk_log, store_hits, llm_reply, ask_log, quiz_log, llm_posts, pass, collection, api_log>>

InitRetrieve == RetrieveInit /\ AskIdle /\ GradeIdle /\ ParseIdle /\ ChunkIdle /\ PassIdle /\ IngestIdle

SpecRetrieve == InitRetrieve /\ [][RetrieveNext]_vars

InitGrade == GradeInit /\ ParseIdle /\ ChunkIdle /\ AskIdle /\ RetrieveIdle /\ PassIdle /\ IngestIdle

SpecGrade == InitGrade /\ [][GradeNext]_vars

IngestNext ==
    /\ UploadPdf
    /\ UNCHANGED <<quiz, answers, grade_log, quiz_text, parse_log, pdf, chunker, document, chunk_log, store_hits, llm_reply, ask_log, quiz_log, llm_posts, index, search, retrieve_log, pass>>

InitIngest == IngestInit /\ GradeIdle /\ ParseIdle /\ ChunkIdle /\ AskIdle /\ RetrieveIdle /\ PassIdle

SpecIngest == InitIngest /\ [][IngestNext]_vars

ApiNext ==
    /\ PostAsk \/ PostQuizGenerate
    /\ UNCHANGED <<quiz, answers, grade_log, quiz_text, parse_log, pdf, chunker, document, chunk_log, index, search, retrieve_log, pass>>

InitApi == ApiInit /\ GradeIdle /\ ParseIdle /\ ChunkIdle /\ RetrieveIdle /\ PassIdle

SpecApi == InitApi /\ [][ApiNext]_vars

ComposeNext ==
    /\ \/ GenerateQuiz /\ UNCHANGED <<quiz, answers, grade_log>>
       \/ GradeGenerated
    /\ UNCHANGED <<quiz_text, parse_log, pdf, chunker, document, chunk_log, index, search, retrieve_log, pass, collection, api_log>>

InitCompose == ComposeInit /\ ParseIdle /\ ChunkIdle /\ RetrieveIdle /\ PassIdle /\ IngestIdle

SpecCompose == InitCompose /\ [][ComposeNext]_vars

----------------------------------------------------------------------------
(* Claims about grading *)

\* C1: every question whose 1-based index has no entry in the answer mapping
\* is graded incorrect (is_correct false, not counted as correct), also when
\* its record has no 'correct' key.
C1_MissingAnswerIncorrect ==
    \A k \in 1..Len(grade_log) :
        LET r == grade_log[k]
            unanswered == {i \in 1..Len(quiz.questions) : i \notin DOMAIN answers}
        IN  /\ \A i \in unanswered : ~r.results[i].is_correct
            /\ r.correct <= Len(quiz.questions) - Cardinality(unanswered)

\* C7: question i is marked correct exactly when a letter was supplied for i,
\* the question has a parsed correct letter, and the two are the same string;
\* correct counts those questions and incorrect the rest.
C7_CorrectIffLettersEqual ==
    \A k \in 1..Len(grade_log) :
        LET r == grade_log[k]
            qs == quiz.questions
            matching == {i \in 1..Len(qs) :
                            /\ i \in DOMAIN answers
                            /\ "correct" \in DOMAIN qs[i]
                            /\ answers[i] = qs[i].correct}
        IN  /\ \A i \in 1..Len(qs) : r.results[i].is_correct <=> i \in matching
            /\ r.correct = Cardinality(matching)
            /\ r.incorrect = Len(qs) - Cardinality(matching)

\* C8: total is the number of questions, correct + incorrect = total,
\* 0 <= correct <= total, the score is 100 * correct / total within [0, 100]
\* when total > 0 and is 0 when total = 0, and no division by zero is raised.
C8_GradeTotals ==
    \A k \in 1..Len(grade_log) :
        LET r == grade_log[k]
            total == r.total_questions
        IN  /\ total = Len(quiz.questions)
            /\ Len(r.results) = total
            /\ r.correct + r.incorrect = total
            /\ 0 <= r.correct /\ r.correct <= total
            /\ "raised" \notin DOMAIN r.score
            /\ total > 0 => /\ r.score.num * total = 100 * r.correct * r.score.den
                            /\ 0 <= r.score.num
                            /\ r.score.num <= 100 * r.score.den
            /\ total = 0 => r.score.num = 0

\* keys [A, B, C] graded against {1: A, 2: X, 3: C}: 2 correct, 1 incorrect
C8_Witness ==
    /\ Len(grade_log) >= 1
    /\ Len(quiz.questions) = 3
    /\ \A i \in 1..3 : "correct" \in DOMAIN quiz.questions[i]
    /\ <<quiz.questions[1].correct, quiz.questions[2].correct, quiz.questions[3].correct>>
           = <<"A", "B", "C">>
    /\ answers = <<"A", "X", "C">>
    /\ grade_log[1].correct = 2
    /\ grade_log[1].incorrect = 1
    /\ ~grade_log[1].results[2].is_correct
    /\ grade_log[1].score = [num |-> 200, den |-> 3]

----------------------------------------------------------------------------
(* Claims about quiz parsing *)

\* C2: _parse_quiz never raises: for every input text it returns a list of
\* question records.
C2_ParseNeverRaises ==
    \A k \in 1..Len(parse_log) : parse_log[k].raised = None

----------------------------------------------------------------------------
(* Claims about chunking *)

\* ceil(a / b) for b > 0
CeilDiv(a, b) == -((-a) \div b)

\* the whitespace-delimited tokens of the document and of a chunk
DocTokens == SplitWs(document[1].full_text)
ChunkTokens(c) == SplitWs(c.text)

\* chunk_document has returned and every chunk came from the generic strategy
GenericDone ==
    /\ chunk_log # << >>
    /\ document[1].metadata.doc_type \notin {"past_paper", "notes", "slides"}

\* C3 as stated: the generic strategy emits ceil((W - V) / (S - V)) chunks
\* for a text of W tokens, window size S and overlap V < S, for every W >= 0.
C3_CountAsStated ==
    GenericDone =>
        Len(chunk_log[1]) = CeilDiv(Len(DocTokens) - chunker.chunk_overlap,
                                    chunker.chunk_size - chunker.chunk_overlap)

\* C3 as amended: the generic strategy emits ceil(W / (S - V)) chunks for a
\* text of W tokens, window size S and overlap V < S, for every W >= 0.
C3_CountAmended ==
    GenericDone =>
        Len(chunk_log[1]) = CeilDiv(Len(DocTokens),
                                    chunker.chunk_size - chunker.chunk_overlap)

\* a text whose last window lies within the overlap of the one before it
C3_Witness ==
    /\ GenericDone
    /\ chunker.chunk_overlap >= 1
    /\ Len(DocTokens) >= 5
    /\ Len(chunk_log[1]) >= 3
    /\ Len(chunk_log[1]) > CeilDiv(Len(DocTokens) - chunker.chunk_overlap,
                                   chunker.chunk_size - chunker.chunk_overlap)

\* C4: chunk k of the generic strategy is the window of S tokens starting
\* (k - 1) * (S - V) tokens into the text, and the last V tokens of each chunk
\* are the first V tokens of the next, except possibly for the pair that ends
\* with the final chunk when that chunk is shorter than S.
C4_ConsecutiveShareOverlap ==
    GenericDone =>
        LET cs == chunk_log[1]
            S == chunker.chunk_size
            V == chunker.chunk_overlap
        IN  /\ \A k \in 1..Len(cs) :
                   ChunkTokens(cs[k]) = Slice(DocTokens, (k - 1) * (S - V), (k - 1) * (S - V) + S)
            /\ \A k \in 1..(Len(cs) - 1) :
                   LET a == ChunkTokens(cs[k])
                       b == ChunkTokens(cs[k + 1])
                   IN  \/ k + 1 = Len(cs) /\ Len(b) < S
                       \/ /\ Len(a) >= V
                          /\ Len(b) >= V
                          /\ From(a, Len(a) - V) = Slice(b, 0, V)

\* the question markers of the document's text, in order: the captured
\* groups among the pieces re.split returns
Markers ==
    LET parts == re_split(document[1].full_text)
    IN  [k \in 1..((Len(parts) - 1) \div 2) |-> parts[2 * k]]

PaperDone ==
    /\ chunk_log # << >>
    /\ document[1].metadata.doc_type = "past_paper"

\* C5: for an exam paper with at least two question markers the strategy
\* emits one chunk per marker, in marker order, and each chunk's text starts
\* with the marker that opened it.
C5_OneChunkPerMarker ==
    (PaperDone /\ Len(Markers) >= 2) =>
        /\ Len(chunk_log[1]) = Len(Markers)
        /\ \A k \in 1..Len(Markers) : StartsWith(chunk_log[1][k].text, Markers[k])

\* a paper with front matter and three markers of both forms
C5_Witness ==
    /\ PaperDone
    /\ Len(Markers) >= 3
    /\ Len(chunk_log[1]) = Len(Markers)
    /\ \E k \in 1..Len(Markers) : Len(Markers[k]) > 8
    /\ \E k \in 1..Len(Markers) : Len(Markers[k]) = 3
    /\ question_pattern(document[1].full_text, 1) = 0

NotesDone ==
    /\ chunk_log # << >>
    /\ document[1].metadata.doc_type = "notes"

\* no line of the document is classified as a heading
NoHeadingLine ==
    LET lines == SplitOn(document[1].full_text, "\n")
    IN  \A k \in 1..Len(lines) : ~_is_heading(Strip(lines[k]))

OneIntroductionChunk ==
    /\ Len(chunk_log[1]) = 1
    /\ chunk_log[1][1].chunk_type = "section"
    /\ chunk_log[1][1].metadata = [section_heading |-> <<"I", "n", "t", "r", "o", "d", "u", "c", "t", "i", "o", "n">>]
    /\ chunk_log[1][1].text = document[1].full_text

\* C10 as stated: a notes document without heading lines yields exactly one
\* chunk, tagged "Introduction", whose text is the full text, whatever the
\* document's length.
C10_OneChunkAsStated ==
    (NotesDone /\ NoHeadingLine) => OneIntroductionChunk

\* C10 as amended: a notes document without heading lines and of at most
\* 1.5 * chunk_size words yields exactly one chunk, tagged "Introduction",
\* whose text is the full text.
C10_OneChunkAmended ==
    (NotesDone /\ NoHeadingLine /\ 2 * Len(DocTokens) <= 3 * chunker.chunk_size)
        => OneIntroductionChunk

\* a heading-free document of several lines that fits in one section
C10_Witness ==
    /\ NotesDone
    /\ NoHeadingLine
    /\ Len(DocTokens) >= 4
    /\ 2 * Len(DocTokens) <= 3 * chunker.chunk_size
    /\ Len(SplitOn(document[1].full_text, "\n")) >= 4
    /\ OneIntroductionChunk

----------------------------------------------------------------------------
(* Claims about answering *)

\* the identifiers of srcs with every repetition after the first dropped
RECURSIVE FirstOccurrences(_, _)
FirstOccurrences(srcs, seen) ==
    IF srcs = << >> THEN << >>
    ELSE IF Head(srcs) \in seen THEN FirstOccurrences(Tail(srcs), seen)
    ELSE <<Head(srcs)>> \o FirstOccurrences(Tail(srcs), seen \cup {Head(srcs)})

\* C6: the sources of an answer are the distinct source documents of the
\* first three retrieved chunks, in retrieval order, each kept at its first
\* occurrence, so that no identifier appears twice.
C6_SourcesDistinct ==
    \A k \in 1..Len(ask_log) :
        "sources" \in DOMAIN ask_log[k] =>
            LET top == FirstThree(store_hits.metadatas)
                ids == [i \in 1..Len(top) |-> top[i].source_document]
            IN  /\ ask_log[k].sources = FirstOccurrences(ids, {})
                /\ \A i, j \in 1..Len(ask_log[k].sources) :
                       i # j => ask_log[k].sources[i] # ask_log[k].sources[j]

----------------------------------------------------------------------------
(* Claims about the notes, slides and exam-paper strategies *)

\* C11: a notes document whose full text is empty is chunked by the generic
\* strategy: the result is the generic strategy's output for the document and
\* contains no section chunk.
C11_EmptyNotesFallBack ==
    (NotesDone /\ document[1].full_text = << >>) =>
        /\ chunk_log[1] = _chunk_generic(chunker, document[1])
        /\ \A k \in 1..Len(chunk_log[1]) : chunk_log[1][k].chunk_type # "section"

SlidesDone ==
    /\ chunk_log # << >>
    /\ document[1].metadata.doc_type = "slides"

\* the 1-based numbers of the pages of the file whose text is not empty after
\* trimming, in page order
TextPageNumbers ==
    LET HasText(n) == Strip(pdf.file.pages[n].text) # << >>
    IN  SelectSeq([n \in 1..Len(pdf.file.pages) |-> n], HasText)

\* C12: the slides strategy emits exactly one chunk per page whose text is not
\* empty after trimming, in page order, of type slide, tagged with the page's
\* number and with has_images true exactly when the page has an image; a page
\* with empty text gives no chunk.
C12_OneChunkPerTextPage ==
    SlidesDone =>
        /\ Len(chunk_log[1]) = Len(TextPageNumbers)
        /\ \A k \in 1..Len(TextPageNumbers) :
               LET c == chunk_log[1][k]
                   n == TextPageNumbers[k]
               IN  /\ c.chunk_type = "slide"
                   /\ c.text = Strip(pdf.file.pages[n].text)
                   /\ c.metadata.page_number = n
                   /\ c.metadata.has_images = (pdf.file.pages[n].images >= 1)

\* pages ["", "Hello", ""], the second with an image: one chunk, for page 2
C12_Witness ==
    /\ SlidesDone
    /\ Len(pdf.file.pages) = 3
    /\ pdf.file.pages[1].text = << >>
    /\ pdf.file.pages[2] = [text |-> <<"H", "e", "l", "l", "o">>, images |-> 1]
    /\ pdf.file.pages[3].text = << >>
    /\ Len(chunk_log[1]) = 1
    /\ chunk_log[1][1].metadata.page_number = 2
    /\ chunk_log[1][1].metadata.has_images

----------------------------------------------------------------------------
(* Claims about retrieval and the generation service *)

AskDone == ask_log # << >>

\* C13: ask posts no request to the generation service when retrieval returns
\* no chunk, and returns the "no relevant information" outcome; otherwise it
\* posts exactly one request, also when that request fails or times out.
C13_OneGenerationCall ==
    AskDone =>
        IF retrieve(store_hits) = << >>
        THEN /\ llm_posts = << >>
             /\ ask_log = <<[error |-> "No relevant information found"]>>
        ELSE /\ Len(llm_posts) = 1
             /\ "error" \notin DOMAIN ask_log[1]

\* a question with retrieved chunks whose generation call timed out
C13_Witness ==
    /\ AskDone
    /\ Len(store_hits.documents) >= 2
    /\ llm_reply.raised = "Timeout"
    /\ Len(llm_posts) = 1
    /\ ask_log[1].answer = <<"Error calling Ollama", "Timeout">>

QuizDone == quiz_log # << >>

\* C14: when retrieval for the topic returns no chunk, generate_quiz returns,
\* without raising and without posting to the generation service, a quiz with
\* the topic, an empty question list and an error marker; when retrieval
\* returns chunks, a returned quiz carries no error marker.
C14_EmptyRetrievalMarksError ==
    QuizDone =>
        IF retrieve(store_hits) = << >>
        THEN /\ quiz_log[1].raised = None
             /\ llm_posts = << >>
             /\ quiz_log[1].value.topic = "pointers"
             /\ quiz_log[1].value.questions = << >>
             /\ "error" \in DOMAIN quiz_log[1].value
        ELSE quiz_log[1].raised = None => "error" \notin DOMAIN quiz_log[1].value

\* a quiz request for which the index returned nothing, the generation
\* service being up
C14_Witness ==
    /\ QuizDone
    /\ store_hits.documents = << >>
    /\ llm_reply.raised = None
    /\ llm_reply.status_code = 200
    /\ llm_posts = << >>
    /\ quiz_log[1].value.questions = << >>
    /\ quiz_log[1].value.error = "No relevant content found for this topic"

\* the generation service failed: the request raised (connection error,
\* timeout), the status is not 200, or the body cannot be parsed
ServiceFailed ==
    \/ llm_reply.raised # None
    \/ llm_reply.status_code # 200
    \/ ~llm_reply.json_ok

\* the error string _call_ollama is to return for the failure
ErrorString ==
    IF llm_reply.raised # None THEN <<"Error calling Ollama", llm_reply.raised>>
    ELSE IF llm_reply.status_code # 200
    THEN <<"Error: Could not generate answer (Status: ", ToString(llm_reply.status_code), ")">>
    ELSE <<"Error calling Ollama", "JSONDecodeError">>

AnsweredWithChunks ==
    /\ AskDone
    /\ retrieve(store_hits) # << >>

\* C15 as stated: with non-empty retrieval ask returns a result with an answer
\* field; after a failure of the generation service the answer is the error
\* string, and in every other case it is the service's text verbatim.
C15_TextOrErrorAsStated ==
    AnsweredWithChunks =>
        /\ "answer" \in DOMAIN ask_log[1]
        /\ IF ServiceFailed THEN ask_log[1].answer = ErrorString
           ELSE /\ "response" \in DOMAIN llm_reply.body
                /\ ask_log[1].answer = llm_reply.body.response

\* C15 as amended: with non-empty retrieval ask returns a result with an
\* answer field; after a failure of the generation service the answer is the
\* error string, after a 200 reply whose body has no response field it is the
\* placeholder "No response generated", and otherwise it is the service's text
\* verbatim.
C15_TextPlaceholderOrError ==
    AnsweredWithChunks =>
        /\ "answer" \in DOMAIN ask_log[1]
        /\ IF ServiceFailed THEN ask_log[1].answer = ErrorString
           ELSE IF "response" \in DOMAIN llm_reply.body
           THEN ask_log[1].answer = llm_reply.body.response
           ELSE ask_log[1].answer = <<"No response generated">>

\* a question with retrieved chunks answered by a service returning status 500
C15_Witness ==
    /\ AnsweredWithChunks
    /\ llm_reply.raised = None
    /\ llm_reply.status_code = 500
    /\ ask_log[1].answer = <<"Error: Could not generate answer (Status: ", "500", ")">>
    /\ ask_log[1].context_used = Len(store_hits.documents)

RetrieveDone == retrieve_log # << >>

\* what the collection returned for the call
StoreAnswer == collection_query(index, search.n_results, search.filter_dict)

\* C16: the list retrieve returns has the length and the order of the store's
\* result list, each relevance_score is 1 - distance of the corresponding
\* store result (in hundredths: 100 - distance), and the relevance scores are
\* non-increasing.
C16_ScoresFollowStoreOrder ==
    RetrieveDone =>
        LET docs == retrieve_log[1]
        IN  /\ Len(docs) = Len(StoreAnswer.documents)
            /\ \A k \in 1..Len(docs) :
                   /\ docs[k].text = StoreAnswer.documents[k]
                   /\ docs[k].metadata = StoreAnswer.metadatas[k]
                   /\ docs[k].relevance_score = 100 - StoreAnswer.distances[k]
            /\ \A k \in 1..(Len(docs) - 1) :
                   docs[k].relevance_score >= docs[k + 1].relevance_score

\* three neighbours, two of them at the same distance and one farther than 1
C16_Witness ==
    /\ RetrieveDone
    /\ Len(retrieve_log[1]) = 3
    /\ retrieve_log[1][1].relevance_score = retrieve_log[1][2].relevance_score
    /\ retrieve_log[1][3].relevance_score < 0

\* no entry of the index matches the filter of the call
NothingMatches ==
    \A k \in 1..Len(index) :
        /\ search.filter_dict # << >>
        /\ index[k].metadata.doc_type # search.filter_dict[1].doc_type

\* C17: when the index holds nothing that matches the query (the index is
\* empty, or the metadata filter matches no entry), retrieve returns an empty
\* list.
C17_EmptyWhenNothingMatches ==
    (RetrieveDone /\ NothingMatches) => retrieve_log[1] = << >>

\* a filter that matches none of the entries of a non-empty index
C17_Witness ==
    /\ RetrieveDone
    /\ Len(index) >= 2
    /\ NothingMatches
    /\ retrieve_log[1] = << >>

C19_FewMarkersFallBack ==
    (PaperDone /\ Len(Markers) < 2) =>
        /\ chunk_log[1] = _chunk_generic(chunker, document[1])
        /\ Len(chunk_log[1]) = CeilDiv(Len(DocTokens),
                                       chunker.chunk_size - chunker.chunk_overlap)
        /\ \A k \in 1..Len(chunk_log[1]) :
               /\ chunk_log[1][k].chunk_type = "generic"
               /\ chunk_log[1][k].metadata = [chunk_id |-> k - 1]

\* a paper with front matter and a single marker, cut into several windows
C19_Witness ==
    /\ PaperDone
    /\ Len(Markers) = 1
    /\ question_pattern(document[1].full_text, 1) = 0
    /\ Len(chunk_log[1]) >= 2
    /\ \A k \in 1..Len(chunk_log[1]) : chunk_log[1][k].chunk_type = "generic"

\* the pieces re.split cuts the document's text into: the text before the
\* first marker, then each marker followed by the text up to the next marker
Pieces == re_split(document[1].full_text)

\* C20: in the exam-paper strategy with at least two markers, chunk k has
\* chunk_type question and question_id equal to the k-th marker as written,
\* and its text is the text from that marker up to, not including, the next
\* marker (or the end), trimmed of surrounding whitespace as every chunk text
\* is; the text before the first marker is part of no chunk.
C20_QuestionChunksFollowMarkers ==
    PaperDone =>
        LET ps == Pieces
            markers == (Len(ps) - 1) \div 2
        IN  markers >= 2 =>
                /\ Len(chunk_log[1]) = markers
                /\ \A k \in 1..Len(chunk_log[1]) :
                       LET c == chunk_log[1][k]
                       IN  /\ c.chunk_type = "question"
                           /\ c.metadata = [question_id |-> ps[2 * k]]
                           /\ c.text = Strip(ps[2 * k] \o ps[2 * k + 1])
                           /\ c.char_count = Len(ps[2 * k]) + Len(ps[2 * k + 1])

\* a paper with front matter, a marker with no text after it, a marker written
\* in lower case and a segment that ends in whitespace
C20_Witness ==
    /\ PaperDone
    /\ Len(Markers) >= 3
    /\ Strip(Pieces[1]) # << >>
    /\ \E k \in 1..Len(Markers) : Pieces[2 * k + 1] = << >>
    /\ \E k \in 1..Len(Markers) : Markers[k] = <<"q", "3", ")">>
    /\ \E k \in 1..Len(Markers) :
           /\ chunk_log[1][k].text # Pieces[2 * k] \o Pieces[2 * k + 1]
           /\ chunk_log[1][k].metadata.question_id = Markers[k]
    /\ Len(chunk_log[1]) = Len(Markers)

----------------------------------------------------------------------------
(* Claims about the loops of the notes and generic strategies *)

\* the lines of the notes document and those the running pass has read
NotesLines == SplitOn(document[1].full_text, "\n")
LinesRead == Slice(NotesLines, 0, Len(NotesLines) - Len(pass[1].lines))

\* the tokens of the chunks in cs, in order
RECURSIVE TokensOf(_)
TokensOf(cs) ==
    IF cs = << >> THEN << >> ELSE ChunkTokens(Head(cs)) \o TokensOf(Tail(cs))

\* the pass reads a line
ReadsLine == pass # << >> /\ pass' # << >> /\ pass'[1].lines # pass[1].lines

\* every line read so far is in exactly one place, in input order: the emitted
\* chunks hold the words of the lines read, followed by the running section
LinesKept ==
    pass # << >> =>
        /\ TokensOf(pass[1].st.chunks) \o SplitWs(pass[1].st.current_section)
               = SplitWs(Join(<<"\n">>, LinesRead))
        /\ (\A k \in 1..Len(LinesRead) : ~_is_heading(Strip(LinesRead[k])))
               => pass[1].st.current_heading = <<"I", "n", "t", "r", "o", "d", "u", "c", "t", "i", "o", "n">>
        /\ chunk_log # << >> => TokensOf(chunk_log[1]) = DocTokens

\* reading a heading line emits the non-empty section accumulated so far as
\* the next chunk, tagged with the heading current before the line, makes the
\* line the current heading and starts the new section with it
HeadingStep ==
    (ReadsLine /\ _is_heading(Strip(Head(pass[1].lines)))) =>
        LET st == pass[1].st
            after == pass'[1].st
            heading == Strip(Head(pass[1].lines))
            flushed == IF st.current_section # << >>
                       THEN Append(st.chunks,
                                   [_create_chunk(st.current_section, document[1], "section", << >>)
                                        EXCEPT !.metadata = [section_heading |-> st.current_heading]])
                       ELSE st.chunks
        IN  /\ Len(after.chunks) >= Len(flushed)
            /\ Slice(after.chunks, 0, Len(flushed)) = flushed
            /\ after.current_heading = heading
            /\ \/ /\ after.chunks = flushed
                  /\ after.current_section = heading \o <<"\n">>
               \/ /\ Len(after.chunks) = Len(flushed) + 1
                  /\ after.chunks[Len(after.chunks)].text = heading
                  /\ after.chunks[Len(after.chunks)].metadata = [section_heading |-> heading]
                  /\ after.current_section = << >>

\* C21: in the notes strategy a heading line flushes the non-empty section
\* accumulated so far as one chunk tagged with the heading that was current
\* before the line ("Introduction" before any heading), the new section starts
\* with the heading line, and every line read is in exactly one chunk, in
\* input order.
C21_HeadingFlushesSection == []LinesKept /\ [][HeadingStep]_vars

\* a pass that read body lines, then a heading, and emitted the body under
\* "Introduction" and the heading's section under the heading
C21_Witness ==
    /\ chunk_log # << >>
    /\ pass # << >>
    /\ Len(pass[1].st.chunks) >= 1
    /\ Len(chunk_log[1]) >= 2
    /\ chunk_log[1][1].metadata.section_heading = <<"I", "n", "t", "r", "o", "d", "u", "c", "t", "i", "o", "n">>
    /\ chunk_log[1][1].text # << >>
    /\ chunk_log[1][2].metadata.section_heading = <<"1", ".", " ", "O", "N">>
    /\ StartsWith(chunk_log[1][2].text, <<"1", ".", " ", "O", "N">>)
    /\ chunker.chunk_size >= 3

\* the section as it stands once the line read has been added to it, before
\* the size test
GrownSection ==
    LET line == Head(pass[1].lines)
    IN  IF _is_heading(Strip(line)) THEN Strip(line) \o <<"\n">>
        ELSE pass[1].st.current_section \o line \o <<"\n">>

\* after each line the running section holds at most 1.5 * chunk_size words
SectionBounded ==
    pass # << >> =>
        2 * Len(SplitWs(pass[1].st.current_section)) <= 3 * chunker.chunk_size

\* a line that takes the section over 1.5 * chunk_size words makes the section
\* a chunk under the current heading and empties the accumulator; any other
\* line leaves the section running; the heading changes only at heading lines
ForcedFlushStep ==
    ReadsLine =>
        LET st == pass[1].st
            after == pass'[1].st
            line == Head(pass[1].lines)
            heading == IF _is_heading(Strip(line)) THEN Strip(line) ELSE st.current_heading
        IN  /\ after.current_heading = heading
            /\ IF 2 * Len(SplitWs(GrownSection)) > 3 * chunker.chunk_size
               THEN /\ after.current_section = << >>
                    /\ after.chunks # << >>
                    /\ after.chunks[Len(after.chunks)].chunk_type = "section"
                    /\ after.chunks[Len(after.chunks)].text = Strip(GrownSection)
                    /\ after.chunks[Len(after.chunks)].metadata = [section_heading |-> heading]
               ELSE /\ after.current_section = GrownSection
                    /\ Len(after.chunks) <= Len(st.chunks) + 1
                    /\ \A k \in (Len(st.chunks) + 1)..Len(after.chunks) :
                           after.chunks[k].metadata = [section_heading |-> st.current_heading]

\* C22: in the notes strategy the running section holds at most
\* 1.5 * chunk_size words after each line: a line that takes the word count
\* over the bound makes the section a chunk tagged with the current heading
\* and resets the accumulator to empty, and the heading stays current for the
\* chunks that follow.
C22_SectionBounded == []SectionBounded /\ [][ForcedFlushStep]_vars

\* a section under a heading was cut by its size and the lines after the cut
\* were emitted under the same heading
C22_Witness ==
    /\ chunk_log # << >>
    /\ \E k \in 1..(Len(chunk_log[1]) - 1) :
           /\ chunk_log[1][k].metadata = chunk_log[1][k + 1].metadata
           /\ chunk_log[1][k].metadata.section_heading = <<"I", "N", "T", "R", "O">>
           /\ 2 * chunk_log[1][k].word_count > 3 * chunker.chunk_size
           /\ ~StartsWith(chunk_log[1][k + 1].text, <<"I", "N", "T", "R", "O">>)

\* an iteration of the generic loop moves start strictly forward
StartIncreases ==
    (pass # << >> /\ pass' # << >>) =>
        \/ pass' = pass
        \/ pass'[1].start > pass[1].start

\* when the loop has ended: the chunks carry chunk_id 0, 1, ..., n - 1 in
\* order, every token of the text is in a chunk, and the window that reaches
\* the end of the text was emitted whatever its length
GenericLoopResult ==
    chunk_log # << >> =>
        LET cs == chunk_log[1]
            S == chunker.chunk_size
            V == chunker.chunk_overlap
        IN  /\ \A k \in 1..Len(cs) : cs[k].metadata = [chunk_id |-> k - 1]
            /\ \A k \in 1..Len(cs) : cs[k].chunk_type = "generic"
            /\ \A t \in 1..Len(DocTokens) :
                   \E k \in 1..Len(cs) :
                       LET first == (k - 1) * (S - V) + 1
                       IN  /\ first <= t
                           /\ t < first + Len(ChunkTokens(cs[k]))
                           /\ ChunkTokens(cs[k])[t - first + 1] = DocTokens[t]
            /\ DocTokens # << >> =>
                   /\ cs # << >>
                   /\ (Len(cs) - 1) * (S - V) + Len(ChunkTokens(cs[Len(cs)])) = Len(DocTokens)
            /\ chunk_log[1] = _chunk_generic(chunker, document[1])

\* the loop cannot run on for ever: start is a multiple of the stride that
\* grows with each iteration and an iteration needs start < len(words), so a
\* text of W tokens allows at most W iterations; and until the chunks are
\* returned the condition of one of the call's steps holds
LoopBounded ==
    /\ pass # << >> =>
           /\ pass[1].chunk_id <= Len(pass[1].words)
           /\ pass[1].start = pass[1].chunk_id * (chunker.chunk_size - chunker.chunk_overlap)
           /\ Len(pass[1].chunks) = pass[1].chunk_id
    /\ \/ chunk_log # << >>
       \/ document = << >>
       \/ pass = << >> /\ document[1].metadata.doc_type \notin {"past_paper", "notes", "slides"}
       \/ pass # << >> /\ pass[1].start < Len(pass[1].words)
       \/ pass # << >> /\ pass[1].start >= Len(pass[1].words)

\* C23: for every document and every configuration with chunk_overlap <
\* chunk_size the loop of the generic strategy ends, start growing strictly at
\* each iteration; when it has ended, the window that reaches the end of the
\* text has been emitted even if shorter than chunk_size, every token of the
\* text is in at least one chunk, and the chunks carry chunk_id 0, 1, ..., n - 1
\* in order.
C23_GenericLoopTerminates ==
    /\ [][StartIncreases]_vars
    /\ []GenericLoopResult
    /\ []LoopBounded

\* a text of five tokens cut with overlap: the last chunk is shorter than
\* chunk_size
C23_Witness ==
    /\ chunk_log # << >>
    /\ pass # << >>
    /\ Len(DocTokens) = 5
    /\ chunker.chunk_overlap >= 1
    /\ Len(chunk_log[1]) >= 3
    /\ chunk_log[1][Len(chunk_log[1])].word_count < chunker.chunk_size
    /\ chunk_log[1][Len(chunk_log[1])].metadata.chunk_id = Len(chunk_log[1]) - 1

----------------------------------------------------------------------------
(* Claims about the records of a parsed quiz *)

\* the question-start lines of a text: the lines that, trimmed, begin with
\* 'Q' and contain ':'
IsQuestionStart(raw) ==
    StartsWith(Strip(raw), <<"Q">>) /\ Contains(Strip(raw), ":")
QuestionStartLines(text) == SelectSeq(SplitOn(text, "\n"), IsQuestionStart)

\* the lines between the k-th question-start line and the next one
RECURSIVE SegmentsOf(_)
SegmentsOf(lines) ==
    IF lines = << >> THEN << >>
    ELSE LET last == lines[Len(lines)]
             before == SegmentsOf(SubSeq(lines, 1, Len(lines) - 1))
         IN  IF IsQuestionStart(last) THEN Append(before, << >>)
             ELSE IF before = << >> THEN << >>
             ELSE [before EXCEPT ![Len(before)] = Append(@, last)]

\* the option letters and the 'Correct:' lines of a segment
OptionLetters(seg) ==
    {Strip(seg[i])[1] : i \in {j \in 1..Len(seg) :
                                 \E p \in OptionPrefixes : StartsWith(Strip(seg[j]), p)}}
HasCorrectLine(seg) ==
    \E i \in 1..Len(seg) :
        StartsWith(Strip(seg[i]), <<"C", "o", "r", "r", "e", "c", "t", ":">>)

\* record k is the one of the k-th question-start line: its text, the options
\* its lines give and a correct field only if it has a 'Correct:' line
RecordsFollowLines(records, text) ==
    LET starts == QuestionStartLines(text)
        segs == SegmentsOf(SplitOn(text, "\n"))
    IN  /\ Len(records) = Len(starts)
        /\ \A k \in 1..Len(records) :
               /\ records[k].question = Strip(SplitOnce(Strip(starts[k]), ":")[2])
               /\ DOMAIN records[k].options = OptionLetters(segs[k])
               /\ ("correct" \in DOMAIN records[k]) = HasCorrectLine(segs[k])

\* C24: the number of question records returned by _parse_quiz equals the
\* number of question-start lines of the input, in input order; a question
\* with no 'Correct:' line or with fewer than four option lines is kept as a
\* partial record, and lines before the first question-start line contribute
\* nothing.
C24_RecordPerQuestionLine ==
    \A k \in 1..Len(parse_log) :
        /\ parse_log[k].raised = None
        /\ RecordsFollowLines(parse_log[k].value, quiz_text)

\* the same on the calls that return
C24_RecordPerQuestionLineReturned ==
    \A k \in 1..Len(parse_log) :
        parse_log[k].raised = None =>
            RecordsFollowLines(parse_log[k].value, quiz_text)

----------------------------------------------------------------------------
(* Claims about the quiz wire format *)

\* C25: for every list of well-formed questions, writing them in the quiz
\* wire format and running _parse_quiz on the text returns the same questions
\* in the same order with the same options and the same correct letters, also
\* when a 'Correct:' line carries explanation text after the letter.
C25_WireFormatRoundTrip ==
    \A k \in 1..Len(parse_log) :
        /\ parse_log[k].raised = None
        /\ parse_log[k].value = quiz.questions

\* two questions were written, with a colon in a question text and in an
\* option text and with an explanation holding a colon after the letter, and
\* the text was parsed
C25_Witness ==
    /\ parse_log # << >>
    /\ Len(quiz.questions) = 2
    /\ Contains(quiz.questions[1].question, ":")
    /\ Contains(quiz.questions[2].options["D"], ":")
    /\ quiz.questions[1].correct # quiz.questions[2].correct
    /\ quiz_text = write_quiz(quiz.questions, <<",", " ", "a", "s", " ", "a", ":", " ", "b">>)
    /\ Len(parse_log[1].value) = 2

----------------------------------------------------------------------------
(* Claims about ingestion *)

\* the metadata key that locates a chunk of a type inside its document
LocatorOf(chunk_type) ==
    CASE chunk_type = "question" -> "question_id"
      [] chunk_type = "section" -> "section_heading"
      [] chunk_type = "slide" -> "page_number"
      [] chunk_type = "generic" -> "chunk_id"

\* the records of the index whose chunks are of one of the types
RecordsOfTypes(types) ==
    {id \in DOMAIN collection.records :
        collection.records[id].metadata.chunk_type \in types}

CarriesProvenance(id) ==
    LET metadata == collection.records[id].metadata
    IN  /\ "source_document" \in DOMAIN metadata
        /\ LocatorOf(metadata.chunk_type) \in DOMAIN metadata

\* C26: every record that add_chunks_to_vectorstore writes to the index
\* carries source_document plus the chunk's locator, for every chunk type the
\* chunker produces: question_id for question chunks, section_heading for
\* section chunks, page_number for slide chunks and the sequential chunk_id
\* for generic chunks.
C26_RecordsCarryLocator ==
    \A id \in RecordsOfTypes({"question", "section", "slide", "generic"}) :
        CarriesProvenance(id)

\* the same for the chunks of the strategies that follow the document's
\* structure
C26_StructuredRecordsCarryLocator ==
    \A id \in RecordsOfTypes({"question", "section", "slide"}) : CarriesProvenance(id)

\* the batch of upload k (none when the file cannot be opened), the collection
\* before upload k, and the identifiers upload k asks the store for
BatchOf(k) ==
    IF api_log[k].file.readable
    THEN chunk_document(UploadChunker, process_pdf(api_log[k].file, api_log[k].doc_type))
    ELSE << >>
RECURSIVE CollectionBefore(_)
CollectionBefore(k) ==
    IF k = 1 THEN [collection EXCEPT !.records = << >>]
    ELSE upload_pdf(CollectionBefore(k - 1), api_log[k - 1].file,
                    api_log[k - 1].doc_type).collection
RequestedIds(k) == LET ids == chunk_ids(BatchOf(k)) IN {ids[i] : i \in 1..Len(ids)}
PositionIds(n) == {<<"c", "h", "u", "n", "k", "_">> \o Numeral(i) : i \in 0..(n - 1)}

\* what upload j wrote, and what upload k found taken
WrittenBy(j) ==
    {id \in RequestedIds(j) :
        /\ id \notin DOMAIN CollectionBefore(j).records
        /\ id \in DOMAIN upload_pdf(CollectionBefore(j), api_log[j].file,
                                    api_log[j].doc_type).collection.records}
CollidedAt(k) == RequestedIds(k) \cap DOMAIN CollectionBefore(k).records

\* C27: the i-th chunk of every batch gets 'chunk_i', whatever its content,
\* its source document and the index hold, so two batches of sizes m and n
\* request min(m, n) identical identifiers, and the later run collides: it
\* finds taken every shared identifier the earlier run wrote, and at least
\* one identifier whenever both batches have chunks.
C27_PositionIdsCollide ==
    \A j \in 1..Len(api_log) : \A k \in (j + 1)..Len(api_log) :
        LET m == Len(BatchOf(j))
            n == Len(BatchOf(k))
        IN  /\ RequestedIds(j) = PositionIds(m)
            /\ RequestedIds(k) = PositionIds(n)
            /\ Cardinality(RequestedIds(j) \cap RequestedIds(k)) = Min(m, n)
            /\ WrittenBy(j) \cap RequestedIds(k) \subseteq CollidedAt(k)
            /\ Min(m, n) >= 1 => CollidedAt(k) # {}

\* two uploads of different documents, of two and three chunks: the second
\* finds both identifiers of the first taken
C27_Witness ==
    /\ Len(api_log) >= 2
    /\ api_log[1].file.filename # api_log[2].file.filename
    /\ Len(BatchOf(1)) = 2
    /\ Len(BatchOf(2)) = 3
    /\ WrittenBy(1) = PositionIds(2)
    /\ CollidedAt(2) = PositionIds(2)

\* the chunks of upload k that the index holds: a record with the chunk's text
\* and the metadata ingestion writes for it
Stored(chunk) ==
    \E id \in DOMAIN collection.records :
        /\ collection.records[id].document = chunk.text
        /\ collection.records[id].metadata = chunk_metadata(chunk)

\* C28: whenever /upload-pdf returns status 'success' with chunks_added = n,
\* all n chunks of that upload are present in the vector index.
C28_SuccessMeansStored ==
    \A k \in 1..Len(api_log) :
        (api_log[k].response.status_code = 200 /\ api_log[k].response.status = "success") =>
            /\ api_log[k].response.chunks_added = Len(BatchOf(k))
            /\ \A i \in 1..Len(BatchOf(k)) : Stored(BatchOf(k)[i])

----------------------------------------------------------------------------
(* Claims about the endpoints *)

\* what the assistant returned or raised for the request of a log entry
AssistantOutcome(entry) ==
    IF entry.path = "/ask" THEN Returned(ask_log[1]) ELSE quiz_log[1]

NoRelevantContent(outcome) ==
    outcome.raised = None /\ "error" \in DOMAIN outcome.value

\* C29: when the assistant reports no relevant content (ask returns its 'no
\* relevant information' outcome, or generate_quiz returns a quiz with an
\* error marker), /ask and /quiz/generate respond with status 404 carrying
\* that message, and status 500 is produced only for unexpected exceptions.
C29_NoContentIs404 ==
    \A k \in 1..Len(api_log) :
        LET outcome == AssistantOutcome(api_log[k])
            response == api_log[k].response
        IN  /\ NoRelevantContent(outcome) =>
                   /\ response.status_code = 404
                   /\ response.detail = outcome.value.error
            /\ response.status_code = 500 => outcome.raised # None

\* the responses when the assistant does not report missing content: 200 with
\* what it returned, 500 with the exception it raised
C29_OtherOutcomes ==
    \A k \in 1..Len(api_log) :
        LET outcome == AssistantOutcome(api_log[k])
            response == api_log[k].response
        IN  ~NoRelevantContent(outcome) =>
                IF outcome.raised # None
                THEN response.status_code = 500
                ELSE response.status_code = 200 /\ response.body = outcome.value

----------------------------------------------------------------------------
(* Claims about grading a generated quiz *)

\* C30: every quiz returned by generate_quiz (with or without an error
\* marker, with fully or partially parsed questions) can be passed to
\* grade_quiz together with any answer mapping, and grade_quiz returns a
\* grading result without raising, with one per-question result for each
\* question of the quiz in order.
C30_GenerateThenGrade ==
    \A k \in 1..Len(grade_log) :
        /\ quiz = quiz_log[1].value
        /\ grade_log[k].raised = None
        /\ LET graded == grade_log[k].value
               questions == quiz_log[1].value.questions
           IN  /\ graded.total_questions = Len(questions)
               /\ graded.correct + graded.incorrect = Len(questions)
               /\ Len(graded.results) = Len(questions)
               /\ \A i \in 1..Len(questions) :
                      /\ graded.results[i].question_num = i
                      /\ graded.results[i].question = questions[i].question
                      /\ graded.results[i].user_answer = Get(answers, i)
                      /\ graded.results[i].correct_answer = Get(questions[i], "correct")

\* a generated quiz of two questions, one parsed without its correct letter,
\* was graded against answers for both
C30_Witness ==
    /\ grade_log # << >>
    /\ "error" \notin DOMAIN quiz
    /\ Len(quiz.questions) = 2
    /\ "correct" \in DOMAIN quiz.questions[1]
    /\ "correct" \notin DOMAIN quiz.questions[2]
    /\ {1, 2} \subseteq DOMAIN answers
    /\ Len(grade_log[1].value.results) = 2

\* a quiz with the error marker was graded
C30_ErrorMarkedGraded ==
    /\ grade_log # << >>
    /\ "error" \in DOMAIN quiz
    /\ answers # << >>
    /\ grade_log[1].raised = None
    /\ grade_log[1].value.total_questions = 0

====
